---- MODULE Spec2Model ----
(***************************************************************************)
(* Verification model of the aibc_demo temperature pipeline.               *)
(*                                                                         *)
(* Part 1 (specification Spec): the forwarder of src/nodejs/config.js      *)
(* (processData, sendDataToAPI, sendAlertToAPI, processBuffer; the MongoDB *)
(* twin in src/nodejs/apiClient.js has the same control flow).  It is run  *)
(* by the Node.js event loop: every action below is one run-to-completion  *)
(* piece of JavaScript, from an event (a line, an HTTP completion, a timer)*)
(* to the next suspension of every promise chain it resumes.               *)
(*                                                                         *)
(* Part 2 (specification SpecCtl): the controller-based reader,            *)
(* processLine of the pipe reader calling analyzeTemperatureData           *)
(* (src/nodejs/controllers/temperatureController.js) and                   *)
(* checkAndHandleAlertTransition (the alert controller in                  *)
(* src/nodejs/utils/datetime.js).  SpecTwo is Part 1 fed by two sensors.   *)
(*                                                                         *)
(* Temperatures are integers in tenths of a degree (20.0 degC is 200).     *)
(***************************************************************************)
EXTENDS Integers, Sequences, FiniteSets, TLC

\* ---------------------------------------------------------------- bounds
MaxReadings == 2      \* readings the line handler hands to processData
RetryLimit == 2       \* config.api.retryLimit, a configuration input
MaxLines == 6         \* lines the controller-based reader processes
MaxPending == 2       \* alert submissions of the reader in flight at once
MaxValues == 3        \* values in a temperature list handed to a classifier
MaxRawLines == 3      \* raw lines a line handler is given
MaxReadErrors == 1    \* read errors the pipe's read streams report
MaxOpenFailures == 2  \* times fs.openSync throws
MaxReceived == 2      \* lines the pipe's readline interfaces emit
MaxPosts == 3         \* records the controllers are asked to send
MaxCycles == 4        \* read cycles of the sensor program's main loop
MaxStamps == 3        \* cycles of the sensor programs whose time field is followed
MaxReads == 2         \* cycles of the sensor program whose sensor read is followed

\* ------------------------------------------------------------- constants
minNormal == 200      \* config.temperature.minNormal (20.0 degC)
maxNormal == 700      \* config.temperature.maxNormal (70.0 degC)

Sensors == {"s1", "s2"}
QueueSensors == {"s1"}            \* the sensors whose lines reach processData
DefaultSensor == "D6T-001"
RIds == 1..MaxReadings

\* temperature_data of a reading: in range, too hot, too cold
TemperatureInputs == { <<250, 300>>, <<250, 710>>, <<150, 300>> }
\* the readings fed to processData: in range, too hot
QueueInputs == { <<250, 300>>, <<250, 710>> }

ReasonLow == "below-minNormal"
ReasonHigh == "above-maxNormal"
ReasonRecovered == "returned-to-normal"

TemperatureUrl == "/temperature-data"
AlertsUrl == "/alerts"

VARIABLES
    readings,          \* the readings received so far, in arrival order
    pc,                \* where the processData call of each reading stands
    prev,              \* previousState as read by each processData call
    dataBuffer,        \* config.js: let dataBuffer = []
    isProcessing,      \* config.js: let isProcessing = false
    sensorAlertState,  \* config.js: const sensorAlertState = {}
    requests,          \* axios.post calls that have not completed yet
    timers,            \* pending setTimeout callbacks, all of retryDelay
    apiUp,             \* whether the API server answers a request with success
    delivered,         \* history: per record, the URLs it was accepted at
    alertLog,          \* history: the alert documents created
    drain,             \* history: the latest run of processBuffer's loop
    forfeited,         \* history: the records a retry timer found the flag
                       \* set for
    ctlCount,          \* history: per sensor, the lines processLine has parsed
    ctlLast,           \* history: per sensor, is_abnormal of its latest line
    ctlAlertState,     \* alert controller: const sensorAlertState = {}
    ctlPending,        \* checkAndHandleAlertTransition calls awaiting sendAlertData
    ctlAlerts,         \* history: the alert records created
    ctlOverlap,        \* history: per sensor, whether a line of it arrived
                       \* while an earlier transition of it was pending
    calc,              \* the argument and the result of a function under study
    lineLog,           \* history: the raw lines a line handler was given
    fd,                \* pipe reader: let fd = null
    readStream,        \* pipe reader: let readStream = null
    rl,                \* pipe reader: let rl = null
    streams,           \* the read streams openPipe has created, by identity
    pendingOpens,      \* calls of openPipe that wait to run: the call of
                       \* start, then the setImmediate callbacks
    openFailures,      \* history: the times fs.openSync has thrown
    readErrors,        \* history: the read errors reported
    received,          \* history: the lines handed to processLine
    pipeExists,        \* whether the named pipe exists in the file system
    startPc,           \* where the start-up of each program stands
    producer,          \* sensor.c main: where its loop stands, and history:
                       \* the cycles begun, the lines written and skipped
    pipeReaders        \* the read ends of the named pipe that are open

qvars == <<readings, pc, prev, dataBuffer, isProcessing, sensorAlertState,
           requests, timers, apiUp, delivered, alertLog, drain,
           forfeited>>
cvars == <<ctlCount, ctlLast, ctlAlertState, ctlPending, ctlAlerts, ctlOverlap>>
ovars == <<calc, lineLog>>
pvars == <<fd, readStream, rl, streams, pendingOpens, openFailures,
           readErrors, received>>
evars == <<pipeExists, startPc>>
wvars == <<producer, pipeReaders>>
vars == <<qvars, cvars, ovars, pvars, evars, wvars>>

Types == {"temperature", "alert"}
Recs == [type : Types, rid : RIds]
Rec(t, r) == [type |-> t, rid |-> r]

\* ------------------------------------------------------- pure functions
\* the JavaScript number NaN, which parseFloat returns for a token that
\* does not start with a number; it lies outside every temperature
NaN == 9999999

\* a slip: the comparison is not strict
JsLessOrEqual(a, b) == a # NaN /\ b # NaN /\ a <= b

\* a < b on JavaScript numbers: false when either side is NaN
JsLess(a, b) == a # NaN /\ b # NaN /\ a < b

\* Math.min(...s) and Math.max(...s): NaN as soon as one argument is NaN
RECURSIVE SeqMin(_), SeqMax(_)
SeqMin(s) == IF Len(s) = 1 THEN s[1]
             ELSE LET m == SeqMin(Tail(s))
                  IN IF s[1] = NaN \/ m = NaN THEN NaN
                     ELSE IF s[1] < m THEN s[1] ELSE m
SeqMax(s) == IF Len(s) = 1 THEN s[1]
             ELSE LET m == SeqMax(Tail(s))
                  IN IF s[1] = NaN \/ m = NaN THEN NaN
                     ELSE IF s[1] > m THEN s[1] ELSE m

\* a slip: the reason found first is kept
HighKeepsFirst(anomalyReason, high) ==
    IF anomalyReason # "" THEN anomalyReason
    ELSE IF high THEN ReasonHigh ELSE ""

\* detectAnomalies' second test assigns anomalyReason again
HighOverwrites(anomalyReason, high) ==
    IF high THEN ReasonHigh ELSE anomalyReason

\* a slip: the low branch sets the flag and leaves the reason as it was
LowReasonUnset(low) == ""

\* let anomalyReason = ''; if (minTemp < minNormal) { anomalyReason = ... }
LowReason(low) == IF low THEN ReasonLow ELSE ""

\* config.js detectAnomalies: low check first, high check overwrites
detectAnomalies(temperatureData) ==
    LET minTemp == SeqMin(temperatureData)
        maxTemp == SeqMax(temperatureData)
        low == JsLess(minTemp, minNormal)
        high == JsLess(maxNormal, maxTemp)
    IN [isAbnormal |-> low \/ high,
        anomalyReason |-> HighOverwrites(LowReason(low), high)]

\* schema.js detectAnomalies: the same tests, and the extremes are returned
schema_detectAnomalies(temperatureData) ==
    LET minTemp == SeqMin(temperatureData)
        maxTemp == SeqMax(temperatureData)
        low == JsLess(minTemp, minNormal)
        high == JsLess(maxNormal, maxTemp)
    IN [isAbnormal |-> low \/ high,
        anomalyReason |-> HighOverwrites(LowReason(low), high),
        minTemp |-> minTemp,
        maxTemp |-> maxTemp]

\* a slip: one key for every sensor
SensorKeyShared(sensor_id) == DefaultSensor

\* data.sensor_id || 'D6T-001'
SensorKey(sensor_id) == IF sensor_id = "" THEN DefaultSensor ELSE sensor_id

\* sensorAlertState[key] || false
StoredState(key) == sensorAlertState[key]

\* createAlertDocument as called by processData
createAlertDocument(r, data, anomaly) ==
    [rid |-> r,
     sensor_id |-> SensorKey(data.sensor_id),
     alert_reason |-> IF anomaly.isAbnormal THEN anomaly.anomalyReason
                      ELSE ReasonRecovered,
     status |-> IF anomaly.isAbnormal THEN "alert" ELSE "normal"]

\* config.api.url, by its route
ApiUrl == "/temperature-data"

\* url.replace(pattern, replacement), on the route of the URL
Replace(url, pattern, replacement) ==
    IF url = pattern THEN replacement ELSE url

\* the URL a sender posts a record to: sendDataToAPI posts to config.api.url,
\* sendAlertToAPI to config.api.url.replace('/temperature-data', '/alerts')
LiveTemperatureUrl == ApiUrl
LiveAlertUrl == Replace(ApiUrl, "/temperature-data", "/alerts")

\* a slip: processBuffer posts every item to config.api.url
BufferUrlOfTemperature(bufferItem) == ApiUrl

\* processBuffer: the URL by bufferItem.type
BufferUrl(bufferItem) ==
    IF bufferItem.type = "temperature" THEN ApiUrl
    ELSE Replace(ApiUrl, "/temperature-data", "/alerts")

Request(rec, url, ctx, retry, caller) ==
    [rec |-> rec, url |-> url, ctx |-> ctx, retry |-> retry, caller |-> caller]

\* drain.base: dataBuffer when the loop was entered; drain.log: the items it
\* has delivered; drain.phase: running, emptied (left with the buffer empty),
\* stopped (left by break after a failure), none (no loop since the last
\* successful live send); drain.live: the record whose accepted live post
\* was followed by the loop
NoDrain == [phase |-> "none", base |-> <<>>, log |-> <<>>, live |-> <<>>]

QueueInit ==
    /\ readings = <<>>
    /\ pc = [r \in RIds |-> "new"]
    /\ prev = [r \in RIds |-> FALSE]
    /\ dataBuffer = <<>>
    /\ isProcessing = FALSE
    /\ sensorAlertState = [s \in Sensors \cup {DefaultSensor} |-> FALSE]
    /\ requests = {}
    /\ timers = <<>>
    /\ apiUp \in BOOLEAN
    /\ delivered = [rec \in Recs |-> <<>>]
    /\ alertLog = <<>>
    /\ drain = NoDrain
    /\ forfeited = <<>>

CtlInit ==
    /\ ctlCount = [s \in Sensors |-> 0]
    /\ ctlLast = [s \in Sensors |-> FALSE]
    /\ ctlAlertState = [s \in Sensors |-> FALSE]
    /\ ctlPending = {}
    /\ ctlAlerts = <<>>
    /\ ctlOverlap = [s \in Sensors |-> FALSE]

\* no function is under study
Idle == [stage |-> "idle"]
NoLines == [count |-> 0, discarded |-> 0, last |-> <<>>]

\* the pipe reader's module-level handles hold null or a stream's identity
Null == 0
\* identities of read streams; one is used again once its stream is closed,
\* has no event left to emit and is held by no handle
MaxSessions == MaxReadErrors + MaxOpenFailures + 2
SessionIds == 1..MaxSessions
\* (closes counts the close operations on the stream's file descriptor)
NoStream == [state |-> "none", listening |-> FALSE, events |-> <<>>,
             closes |-> 0]

\* the pipe reader when start() is about to call openPipe
PipeInit ==
    /\ fd = Null /\ readStream = Null /\ rl = Null
    /\ streams = [s \in SessionIds |-> NoStream]
    /\ pendingOpens = 1
    /\ openFailures = 0 /\ readErrors = 0 /\ received = 0

\* the programs that create the named pipe when they start: the two sensor
\* programs, the controller-based pipe reader and the simple pipe reader
CPrograms == {"sensor", "sensorLogged"}
NodePrograms == {"pipeReader", "simplePipeReader"}
Programs == CPrograms \cup NodePrograms

\* every program is past its start-up and the named pipe exists
EndpointUp ==
    /\ pipeExists = TRUE
    /\ startPc = [p \in Programs |-> "running"]

\* the sensor program is about to begin its first cycle and no reader holds
\* the pipe
ProducerInit ==
    /\ producer = [pc |-> "read", cycles |-> 0, sent |-> 0, skipped |-> 0]
    /\ pipeReaders = 0

RestIdle ==
    /\ calc = Idle /\ lineLog = NoLines
    /\ PipeInit /\ EndpointUp /\ ProducerInit

Init == QueueInit /\ CtlInit /\ RestIdle

\* ------------------------------------------------- small steps of the code
\* a slip: the item is put at the head
BufferPushAtHead(buffer, item) == <<item>> \o buffer

\* dataBuffer.push(item)
BufferPush(buffer, item) == Append(buffer, item)

\* a slip: the failed item is put back at the tail
BufferUnshiftAtTail(buffer, bufferItem) == Append(buffer, bufferItem)

\* dataBuffer.unshift(bufferItem)
BufferUnshift(buffer, bufferItem) == <<bufferItem>> \o buffer

\* a slip: the head is read and left in the buffer
BufferShiftKept(buffer) == buffer

\* dataBuffer.shift(): what is left in the buffer
BufferShift(buffer) == Tail(buffer)

\* a slip: one retry too many
RetryAllowedOnceMore(retry) == retry <= RetryLimit

\* if (retry < config.api.retryLimit)
RetryAllowed(retry) == retry < RetryLimit

\* a slip: only the change to abnormal counts
StateChangedToAbnormal(currentState, previousState) == currentState /\ ~previousState

\* if (currentState !== previousState)
StateChanged(currentState, previousState) == currentState # previousState

\* a slip: the document built for a reading is its alert document
createAlertDocumentOnly(r) == Rec("alert", r)

\* processData: const temperatureRecord = createTemperatureDocument(data, ...)
createTemperatureDocument(r) == Rec("temperature", r)

\* a slip: the failure of a drain post reaches the catch of sendDataToAPI,
\* which sets a retry timer for the live record
DrainRethrow(tms, live) == Append(tms, [rec |-> live, retry |-> 1])

\* processBuffer: the catch inside its loop keeps the failure of a drain
\* post from sendDataToAPI, which sets no timer
DrainCatch(tms, live) == tms

\* the guard, were the flag never found set
GuardNeverBusy == FALSE

\* the single-flight guard at the top of sendDataToAPI
GuardBusy == isProcessing

\* the flag, had sendDataToAPI no finally clause
FlagAfterFinallyKept == isProcessing

\* sendDataToAPI: finally { isProcessing = false }
FlagAfterFinally == FALSE

\* the API server accepts the request q
Accept(q) == [delivered EXCEPT ![q.rec] = Append(@, q.url)]

\* processData after "await sendDataToAPI(temperatureRecord)" has resolved:
\* on a state change it creates the alert document and posts it.
\* reqs is the set of pending requests left by the step that resumes it.
AfterSendData(r, data, previousState, reqs) ==
    LET anomaly == detectAnomalies(data.temperature_data)
    IN IF StateChanged(anomaly.isAbnormal, previousState)
       THEN /\ requests' = reqs \cup
                   {Request(Rec("alert", r), LiveAlertUrl, "sendAlert", 0, r)}
            /\ alertLog' = Append(alertLog, createAlertDocument(r, data, anomaly))
            /\ pc' = [pc EXCEPT ![r] = "alertSend"]
       ELSE /\ requests' = reqs
            /\ alertLog' = alertLog
            /\ pc' = [pc EXCEPT ![r] = "done"]

\* the end of a sendDataToAPI call: its caller, if a processData call awaits
\* it (caller # 0), runs on; a call made by a retry timer has no caller.
Resume(caller, reqs) ==
    IF caller = 0
    THEN requests' = reqs /\ UNCHANGED <<alertLog, pc>>
    ELSE AfterSendData(caller, readings[caller], prev[caller], reqs)

\* a slip: the state is stored only when sendAlertToAPI returned true
StateStoredIfSent(sent, storedState, currentState) ==
    IF sent THEN currentState ELSE storedState

\* processData: sensorAlertState[alertRecord.sensor_id] = currentState, the
\* value sendAlertToAPI returned (sent) is not looked at
StateStored(sent, storedState, currentState) == currentState

\* processData after "await sendAlertToAPI(alertRecord)" has resolved to sent
AfterSendAlert(r, sent) ==
    LET data == readings[r]
        currentState == detectAnomalies(data.temperature_data).isAbnormal
    IN /\ sensorAlertState' =
              [sensorAlertState EXCEPT ![SensorKey(data.sensor_id)] =
                   StateStored(sent, @, currentState)]
       /\ pc' = [pc EXCEPT ![r] = "done"]

\* ---------------------------------------------------------------- actions
\* The line handler calls processData(sensorData) and does not await it.
\* processData runs up to its first pending await: sendDataToAPI either
\* buffers the record (and processData runs on to the alert check) or sets
\* the flag and posts the record.
processData(sensor_id, temperature_data) ==
    /\ Len(readings) < MaxReadings
    /\ LET r == Len(readings) + 1
           data == [sensor_id |-> sensor_id, temperature_data |-> temperature_data]
           previousState == StoredState(SensorKey(sensor_id))
       IN /\ readings' = Append(readings, data)
          /\ prev' = [prev EXCEPT ![r] = previousState]
          /\ IF GuardBusy
             THEN /\ dataBuffer' = BufferPush(dataBuffer, createTemperatureDocument(r))
                  /\ AfterSendData(r, data, previousState, requests)
                  /\ UNCHANGED isProcessing
             ELSE /\ isProcessing' = TRUE
                  /\ requests' = requests \cup
                        {Request(createTemperatureDocument(r), LiveTemperatureUrl,
                                 "sendData", 0, r)}
                  /\ pc' = [pc EXCEPT ![r] = "tempSend"]
                  /\ UNCHANGED <<dataBuffer, alertLog>>
    /\ UNCHANGED <<drain, forfeited>>
    /\ UNCHANGED <<sensorAlertState, timers, apiUp, delivered>>

\* processBuffer when called or when its loop comes round: shift the head and
\* post it, or return to sendDataToAPI, whose finally clears the flag.
processBuffer(caller, reqs) ==
    IF dataBuffer = <<>>
    THEN /\ isProcessing' = FlagAfterFinally
         /\ Resume(caller, reqs)
         /\ UNCHANGED dataBuffer
    ELSE LET bufferItem == Head(dataBuffer)
         IN /\ dataBuffer' = BufferShift(dataBuffer)
            /\ requests' = reqs \cup
                  {Request(bufferItem, BufferUrl(bufferItem), "drain", 0, caller)}
            /\ UNCHANGED <<isProcessing, alertLog, pc>>

\* sendDataToAPI: axios.post resolved
SendDataSuccess(q) ==
    /\ q \in requests /\ q.ctx = "sendData"
    /\ apiUp
    /\ delivered' = Accept(q)
    /\ processBuffer(q.caller, requests \ {q})
    /\ drain' = IF dataBuffer = <<>> THEN NoDrain
                ELSE [phase |-> "running", base |-> dataBuffer, log |-> <<>>,
                      live |-> q.rec]
    /\ UNCHANGED <<readings, prev, sensorAlertState, timers, apiUp, forfeited>>

\* sendDataToAPI: axios.post rejected (catch, then finally)
SendDataFail(q) ==
    /\ q \in requests /\ q.ctx = "sendData"
    /\ ~apiUp
    /\ IF RetryAllowed(q.retry)
       THEN /\ timers' = Append(timers, [rec |-> q.rec, retry |-> q.retry + 1])
            /\ UNCHANGED <<dataBuffer>>
       ELSE /\ dataBuffer' = BufferPush(dataBuffer, q.rec)
            /\ UNCHANGED timers
    /\ isProcessing' = FlagAfterFinally
    /\ Resume(q.caller, requests \ {q})
    /\ UNCHANGED <<drain, forfeited>>
    /\ UNCHANGED <<readings, prev, sensorAlertState, apiUp, delivered>>

\* setTimeout(() => sendDataToAPI(data, retry + 1), retryDelay) fires
RetryTimer ==
    /\ timers # <<>>
    /\ Head(timers).rec.type = "temperature"
    /\ LET t == Head(timers)
       IN /\ timers' = Tail(timers)
          /\ IF GuardBusy
             THEN /\ dataBuffer' = BufferPush(dataBuffer, t.rec)
                  /\ forfeited' = Append(forfeited, t.rec)
                  /\ UNCHANGED <<isProcessing, requests>>
             ELSE /\ isProcessing' = TRUE
                  /\ requests' = requests \cup
                        {Request(t.rec, LiveTemperatureUrl, "sendData", t.retry, 0)}
                  /\ UNCHANGED <<dataBuffer, forfeited>>
    /\ UNCHANGED drain
    /\ UNCHANGED <<readings, pc, prev, sensorAlertState, apiUp, delivered,
                   alertLog>>

\* processBuffer: the post of the shifted item resolved; the loop comes round
DrainSuccess(q) ==
    /\ q \in requests /\ q.ctx = "drain"
    /\ apiUp
    /\ delivered' = Accept(q)
    /\ processBuffer(q.caller, requests \ {q})
    /\ drain' = [drain EXCEPT !.log = Append(@, q.rec),
                              !.phase = IF dataBuffer = <<>> THEN "emptied"
                                        ELSE "running"]
    /\ UNCHANGED <<readings, prev, sensorAlertState, timers, apiUp, forfeited>>

\* processBuffer: the post of the shifted item rejected: unshift and break
DrainFail(q) ==
    /\ q \in requests /\ q.ctx = "drain"
    /\ ~apiUp
    /\ dataBuffer' = BufferUnshift(dataBuffer, q.rec)
    /\ timers' = DrainCatch(timers, drain.live)
    /\ drain' = [drain EXCEPT !.phase = "stopped"]
    /\ isProcessing' = FlagAfterFinally
    /\ Resume(q.caller, requests \ {q})
    /\ UNCHANGED <<readings, prev, sensorAlertState, apiUp, delivered,
                   forfeited>>

\* sendAlertToAPI: axios.post resolved; processData stores the new state
SendAlertSuccess(q) ==
    /\ q \in requests /\ q.ctx = "sendAlert"
    /\ apiUp
    /\ delivered' = Accept(q)
    /\ requests' = requests \ {q}
    /\ AfterSendAlert(q.caller, TRUE)
    /\ UNCHANGED <<drain, forfeited>>
    /\ UNCHANGED <<readings, prev, dataBuffer, isProcessing, timers, apiUp,
                   alertLog>>

\* sendAlertToAPI: axios.post rejected: wait retryDelay, or buffer and return
SendAlertFail(q) ==
    /\ q \in requests /\ q.ctx = "sendAlert"
    /\ ~apiUp
    /\ requests' = requests \ {q}
    /\ IF RetryAllowed(q.retry)
       THEN /\ timers' = Append(timers, [rec |-> q.rec, retry |-> q.retry + 1])
            /\ UNCHANGED <<dataBuffer, sensorAlertState, pc>>
       ELSE /\ dataBuffer' = BufferPush(dataBuffer, q.rec)
            /\ AfterSendAlert(q.caller, FALSE)
            /\ UNCHANGED timers
    /\ UNCHANGED <<drain, forfeited>>
    /\ UNCHANGED <<readings, prev, isProcessing, apiUp, delivered, alertLog>>

\* the retry delay of sendAlertToAPI is over: sendAlertToAPI(data, retry + 1)
AlertRetryTimer ==
    /\ timers # <<>>
    /\ Head(timers).rec.type = "alert"
    /\ LET t == Head(timers)
       IN /\ timers' = Tail(timers)
          /\ requests' = requests \cup
                {Request(t.rec, LiveAlertUrl, "sendAlert", t.retry, t.rec.rid)}
    /\ UNCHANGED <<drain, forfeited>>
    /\ UNCHANGED <<readings, pc, prev, dataBuffer, isProcessing, sensorAlertState,
                   apiUp, delivered, alertLog>>

\* the API server becomes unreachable / reachable
ApiDown ==
    /\ apiUp /\ apiUp' = FALSE
    /\ UNCHANGED <<drain, forfeited>>
    /\ UNCHANGED <<readings, pc, prev, dataBuffer, isProcessing, sensorAlertState,
                   requests, timers, delivered, alertLog>>

ApiUp ==
    /\ ~apiUp /\ apiUp' = TRUE
    /\ UNCHANGED <<drain, forfeited>>
    /\ UNCHANGED <<readings, pc, prev, dataBuffer, isProcessing, sensorAlertState,
                   requests, timers, delivered, alertLog>>

\* a step of the forwarder leaves the controller-based reader alone
Queue(A) == A /\ UNCHANGED <<cvars, ovars, pvars, evars, wvars>>

Next ==
    \/ \E s \in QueueSensors, td \in QueueInputs : Queue(processData(s, td))
    \/ \E q \in requests : Queue(SendDataSuccess(q))
    \/ \E q \in requests : Queue(SendDataFail(q))
    \/ Queue(RetryTimer)
    \/ \E q \in requests : Queue(DrainSuccess(q))
    \/ \E q \in requests : Queue(DrainFail(q))
    \/ \E q \in requests : Queue(SendAlertSuccess(q))
    \/ \E q \in requests : Queue(SendAlertFail(q))
    \/ Queue(AlertRetryTimer)
    \/ Queue(ApiDown)
    \/ Queue(ApiUp)

Spec == Init /\ [][Next]_vars

\* the forwarder fed by two sensors
NextTwo ==
    \/ \E s \in Sensors, td \in QueueInputs : Queue(processData(s, td))
    \/ \E q \in requests : Queue(SendDataSuccess(q))
    \/ \E q \in requests : Queue(SendDataFail(q))
    \/ Queue(RetryTimer)
    \/ \E q \in requests : Queue(DrainSuccess(q))
    \/ \E q \in requests : Queue(DrainFail(q))
    \/ \E q \in requests : Queue(SendAlertSuccess(q))
    \/ \E q \in requests : Queue(SendAlertFail(q))
    \/ Queue(AlertRetryTimer)
    \/ Queue(ApiDown)
    \/ Queue(ApiUp)

SpecTwo == Init /\ [][NextTwo]_vars

\* every HTTP request completes and every timer fires; nothing obliges the
\* pipe to deliver another line or the API server to change its state
Completion ==
    \E q \in requests :
        Queue(\/ SendDataSuccess(q) \/ SendDataFail(q)
              \/ DrainSuccess(q) \/ DrainFail(q)
              \/ SendAlertSuccess(q) \/ SendAlertFail(q))

LiveSpec == Spec /\ WF_vars(Completion)
                 /\ WF_vars(Queue(RetryTimer \/ AlertRetryTimer))

\* ------------------------------------------- the controller-based reader
minNormalTemp == minNormal    \* config.threshold.min
maxNormalTemp == maxNormal    \* config.threshold.max

\* temperatureController.js analyzeTemperatureData: max first, else min
analyzeTemperatureData(temperatureData) ==
    LET maxTemp == SeqMax(temperatureData)
        minTemp == SeqMin(temperatureData)
    IN IF JsLess(maxNormalTemp, maxTemp)
       THEN [isAbnormal |-> TRUE, alertReason |-> ReasonHigh,
             maxTemp |-> maxTemp, minTemp |-> minTemp]
       ELSE IF JsLess(minTemp, minNormalTemp)
       THEN [isAbnormal |-> TRUE, alertReason |-> ReasonLow,
             maxTemp |-> maxTemp, minTemp |-> minTemp]
       ELSE [isAbnormal |-> FALSE, alertReason |-> "",
             maxTemp |-> maxTemp, minTemp |-> minTemp]

\* sensorAlertState[sensorId] || false
CtlPreviousState(sensorId) == ctlAlertState[sensorId]

\* a slip: every abnormal reading counts as a change (level-triggered)
CtlUnchangedLevel(previousState, isAbnormal) == ~isAbnormal

\* if (previousState === isAbnormal) return false
CtlUnchanged(previousState, isAbnormal) == previousState = isAbnormal

\* a slip: one state for all sensors
CtlStateKeyShared(sensorId) == "s1"

\* the key of sensorAlertState[sensorId] = isAbnormal
CtlStateKey(sensorId) == sensorId

\* the number of lines parsed so far
RECURSIVE SumOver(_, _)
SumOver(f, S) == IF S = {} THEN 0
                 ELSE LET x == CHOOSE y \in S : TRUE
                      IN f[x] + SumOver(f, S \ {x})
CtlLines == SumOver(ctlCount, Sensors)

\* the alert document of checkAndHandleAlertTransition; line is the
\* position of the reading among the lines of its sensor
CtlAlertRecord(n, sensorId, isAbnormal, analysis) ==
    [line |-> n,
     sensor_id |-> sensorId,
     alert_reason |-> IF isAbnormal THEN analysis.alertReason ELSE ReasonRecovered,
     status |-> IF isAbnormal THEN "abnormal" ELSE "normal"]

\* processLine for a line that matches the pattern: analyse, send the
\* temperature record (not awaited, touches no state of the reader), and
\* call checkAndHandleAlertTransition, which runs up to await sendAlertData
processLine(sensorId, temperatureData) ==
    /\ CtlLines < MaxLines
    /\ LET n == ctlCount[sensorId] + 1
           analysis == analyzeTemperatureData(temperatureData)
           isAbnormal == analysis.isAbnormal
           previousState == CtlPreviousState(sensorId)
       IN /\ ctlCount' = [ctlCount EXCEPT ![sensorId] = n]
          /\ ctlLast' = [ctlLast EXCEPT ![sensorId] = isAbnormal]
          /\ ctlOverlap' = [ctlOverlap EXCEPT ![sensorId] =
                                @ \/ \E p \in ctlPending : p.sensorId = sensorId]
          /\ IF CtlUnchanged(previousState, isAbnormal)
             THEN UNCHANGED <<ctlPending, ctlAlerts>>
             ELSE /\ Cardinality(ctlPending) < MaxPending
                  /\ ctlAlerts' = Append(ctlAlerts,
                        CtlAlertRecord(n, sensorId, isAbnormal, analysis))
                  /\ ctlPending' = ctlPending \cup
                        {[line |-> n, sensorId |-> sensorId, isAbnormal |-> isAbnormal]}
    /\ UNCHANGED ctlAlertState

\* sendAlertData returned (true or false, the caller does not look):
\* checkAndHandleAlertTransition stores the new state
AlertSettled(p) ==
    /\ p \in ctlPending
    /\ ctlPending' = ctlPending \ {p}
    /\ ctlAlertState' = [ctlAlertState EXCEPT ![CtlStateKey(p.sensorId)] = p.isAbnormal]
    /\ UNCHANGED <<ctlCount, ctlLast, ctlAlerts, ctlOverlap>>

CtlNext ==
    \/ \E s \in Sensors, td \in TemperatureInputs :
          processLine(s, td) /\ UNCHANGED <<qvars, ovars, pvars, evars, wvars>>
    \/ \E p \in ctlPending : AlertSettled(p) /\ UNCHANGED <<qvars, ovars, pvars, evars, wvars>>

\* the reader runs on its own: the forwarder stays as constructed
CtlStart == QueueInit /\ apiUp /\ CtlInit /\ RestIdle

SpecCtl == CtlStart /\ [][CtlNext]_vars

\* ------------------------------------------------------ the classifiers
\* part_003 (simple reader) analyzeTemperatureData: max first, else min
simple_analyzeTemperatureData(temperatureData) ==
    LET maxTemp == SeqMax(temperatureData)
        minTemp == SeqMin(temperatureData)
    IN IF JsLess(maxNormal, maxTemp)
       THEN [isAbnormal |-> TRUE, alertReason |-> ReasonHigh]
       ELSE IF JsLess(minTemp, minNormal)
       THEN [isAbnormal |-> TRUE, alertReason |-> ReasonLow]
       ELSE [isAbnormal |-> FALSE, alertReason |-> ""]

\* values at and next to the two thresholds
ThresholdProbes == {minNormal - 1, minNormal, minNormal + 1,
                    maxNormal - 1, maxNormal, maxNormal + 1}
\* the expression matches a list of two values or more
ClassifierInputs ==
    UNION {[1..n -> ThresholdProbes] : n \in 2..MaxValues}

\* the three classifiers applied to one temperature list
Classify ==
    /\ calc.stage = "input"
    /\ calc' = [stage |-> "classified",
                values |-> calc.values,
                controller |-> analyzeTemperatureData(calc.values),
                forwarder |-> detectAnomalies(calc.values),
                schema |-> schema_detectAnomalies(calc.values),
                simple |-> simple_analyzeTemperatureData(calc.values)]
    /\ UNCHANGED <<qvars, cvars, lineLog, pvars, evars, wvars>>

ClassifyStart ==
    /\ QueueInit /\ apiUp /\ CtlInit
    /\ calc \in {[stage |-> "input", values |-> v] : v \in ClassifierInputs}
    /\ lineLog = NoLines /\ PipeInit /\ EndpointUp
    /\ ProducerInit

SpecClassify == ClassifyStart /\ [][Classify]_vars

\* ----------------------------------------------------- the line protocol
\* A line is a sequence of lexemes and a lexeme is a sequence of characters:
\* a literal of the format string is one element, a number is spelled out
\* character by character, so that formatting and parsing work on text.
N_PIXEL == 16                   \* sensor.c: #define N_PIXEL (4 * 4)

Space == <<" ">>
Comma == <<",">>
LitId == <<"id:">>
LitDate == <<"date:">>
LitTime == <<"time:">>
LitPTAT == <<"PTAT:">>
LitTemperature == <<"Temperature:">>
LitDegC == <<"[degC]">>

Digits == <<"0", "1", "2", "3", "4", "5", "6", "7", "8", "9">>
DigitChar(d) == Digits[d + 1]
IsDigit(c) == \E d \in 0..9 : Digits[d + 1] = c
DigitVal(c) == CHOOSE d \in 0..9 : Digits[d + 1] = c
\* a slip: the character class [0-9.], without the sign
NumCharsUnsigned == {Digits[i] : i \in 1..10} \cup {"."}

\* the character class [0-9.-]
NumChars == {Digits[i] : i \in 1..10} \cup {".", "-"}

\* the decimal digits of a natural number
RECURSIVE DecChars(_)
DecChars(n) == IF n < 10 THEN <<DigitChar(n)>>
               ELSE DecChars(n \div 10) \o <<DigitChar(n % 10)>>

\* printf "%.1f" of a value given in tenths
Fixed1(v) ==
    LET a == IF v < 0 THEN -v ELSE v
    IN (IF v < 0 THEN <<"-">> ELSE <<>>)
       \o DecChars(a \div 10) \o <<".">> \o <<DigitChar(a % 10)>>

\* printf "%4.1f": blanks in front up to a width of four, then the number
Format41(v) ==
    LET text == Fixed1(v)
        pad == IF Len(text) < 4 THEN 4 - Len(text) ELSE 0
    IN [i \in 1..pad |-> Space] \o <<text>>

\* the lexemes of "a, b, ..., z" for the pixel values
RECURSIVE FormatList(_)
FormatList(pix) ==
    IF Len(pix) = 1 THEN Format41(pix[1])
    ELSE Format41(pix[1]) \o <<Comma, Space>> \o FormatList(Tail(pix))

\* sensor.c main: the two sprintf steps that build the line
Encode(r) ==
    <<LitId, Space, <<r.sensor_id>>, Comma, Space,
      LitDate, Space, <<r.date>>, Comma, Space,
      LitTime, Space, r.time, Comma, Space,
      LitPTAT, Space>> \o Format41(r.ptat) \o <<Space, LitDegC, Comma, Space,
      LitTemperature, Space>> \o FormatList(r.pix) \o <<Space, LitDegC>>

\* -- the consumer's regular expression, lexeme by lexeme
\* \s*
RECURSIVE SkipWs(_, _)
SkipWs(line, i) ==
    IF i <= Len(line) /\ line[i] = Space THEN SkipWs(line, i + 1) ELSE i
\* a slip: the literal is not compared
AtAnything(line, i, lit) == i <= Len(line)

\* a literal of the expression
At(line, i, lit) == i <= Len(line) /\ line[i] = lit
\* (\S+) in front of a comma
IsTok(line, i) == i <= Len(line) /\ line[i] # Space /\ line[i] # Comma
                  /\ line[i] # <<>>
\* ([0-9.-]+)
IsNum(line, i) == /\ i <= Len(line) /\ line[i] # <<>>
                  /\ \A k \in 1..Len(line[i]) : line[i][k] \in NumChars
\* (\S+:\S+:\S+:\S+)
IsTime(line, i) ==
    /\ IsTok(line, i)
    /\ LET t == line[i]
           colons == {k \in 1..Len(t) : t[k] = ":"}
       IN \E a, b, c \in colons :
             /\ 1 < a /\ a + 1 < b /\ b + 1 < c /\ c < Len(t)
\* ((?:[0-9.-]+\s*,\s*)+[0-9.-]+): from the number at i, the place of the
\* last number of the longest list
RECURSIVE ListEnd(_, _)
ListEnd(line, i) ==
    LET j == SkipWs(line, i + 1)
        k == SkipWs(line, j + 1)
    IN IF At(line, j, Comma) /\ IsNum(line, k) THEN ListEnd(line, k) ELSE i

\* the match of the expression that starts at lexeme s, with its groups
MatchAt(line, s) ==
    LET a == SkipWs(line, s + 1)          \* group 1
        b == SkipWs(line, a + 2)          \* date:
        c == SkipWs(line, b + 1)          \* group 2
        d == SkipWs(line, c + 2)          \* time:
        e == SkipWs(line, d + 1)          \* group 3
        f == SkipWs(line, e + 2)          \* PTAT:
        g == SkipWs(line, f + 1)          \* group 4
        h == SkipWs(line, g + 1)          \* [degC]
        k == SkipWs(line, h + 2)          \* Temperature:
        l == SkipWs(line, k + 1)          \* group 5, first number
        m == ListEnd(line, l)             \* group 5, last number
        n == SkipWs(line, m + 1)          \* [degC]
    IN [ok |-> /\ At(line, s, LitId) /\ IsTok(line, a) /\ At(line, a + 1, Comma)
               /\ At(line, b, LitDate) /\ IsTok(line, c) /\ At(line, c + 1, Comma)
               /\ At(line, d, LitTime) /\ IsTime(line, e) /\ At(line, e + 1, Comma)
               /\ At(line, f, LitPTAT) /\ IsNum(line, g)
               /\ At(line, h, LitDegC) /\ At(line, h + 1, Comma)
               /\ At(line, k, LitTemperature) /\ IsNum(line, l) /\ m > l
               /\ At(line, n, LitDegC),
        id |-> a, date |-> c, time |-> e, ptat |-> g, first |-> l, last |-> m]

\* line.match(regex): the expression is not anchored
MatchStarts(line) ==
    {s \in 1..Len(line) : At(line, s, LitId) /\ MatchAt(line, s).ok}
Matches(line) == MatchStarts(line) # {}
\* the leftmost match
Match(line) ==
    LET starts == MatchStarts(line)
    IN MatchAt(line, CHOOSE s \in starts : \A y \in starts : s <= y)

\* the end of the run of digits that starts at i
RECURSIVE DigitRun(_, _)
DigitRun(t, i) == IF i <= Len(t) /\ IsDigit(t[i]) THEN DigitRun(t, i + 1) ELSE i
\* the value of the digits t[i..j-1]
RECURSIVE DigitsVal(_, _, _)
DigitsVal(t, i, j) == IF i >= j THEN 0
                      ELSE DigitsVal(t, i, j - 1) * 10 + DigitVal(t[j - 1])

\* parseFloat, in tenths: the longest prefix that is a number, NaN when
\* there is none.  The tokens of this model carry at most one decimal.
parseFloat(t) ==
    LET neg == Len(t) >= 1 /\ t[1] = "-"
        start == IF neg THEN 2 ELSE 1
        intEnd == DigitRun(t, start)
        hasDot == intEnd <= Len(t) /\ t[intEnd] = "."
        fracEnd == IF hasDot THEN DigitRun(t, intEnd + 1) ELSE intEnd
        fracDigits == IF hasDot THEN fracEnd - intEnd - 1 ELSE 0
        tenths == DigitsVal(t, start, intEnd) * 10
                  + (IF fracDigits > 0 THEN DigitVal(t[intEnd + 1]) ELSE 0)
    IN IF (intEnd - start) + fracDigits = 0 THEN NaN
       ELSE IF neg THEN -tenths ELSE tenths

\* match[5].split(',').map(temp => parseFloat(temp.trim()))
RECURSIVE ParseList(_, _, _)
ParseList(line, i, last) ==
    IF i > last THEN <<>>
    ELSE IF IsNum(line, i)
    THEN <<parseFloat(line[i])>> \o ParseList(line, i + 1, last)
    ELSE ParseList(line, i + 1, last)

\* processLine: the values taken from the groups of the match
Decode(line) ==
    LET match == Match(line)
    IN [sensorId |-> line[match.id][1],
        date |-> line[match.date][1],
        time |-> line[match.time],
        ptat |-> parseFloat(line[match.ptat]),
        temperatureData |-> ParseList(line, match.first, match.last)]

\* -- round trip of a reading through the producer's line
PixProbes == {-32768, -105, -5, 0, 5, 99, 100, 251, 32767}
PtatProbes == {-5, 265}
RoundTripReadings ==
    {[sensor_id |-> "sensor_1", date |-> "2025-04-08",
      time |-> <<"14", ":", "25", ":", "23", ":", "171">>,
      ptat |-> p,
      pix |-> [i \in 1..N_PIXEL |-> IF i = k THEN a ELSE b]] :
        p \in PtatProbes, k \in 1..N_PIXEL, a \in PixProbes, b \in PixProbes}

\* the producer formats the reading
FormatLine ==
    /\ calc.stage = "reading"
    /\ calc' = [stage |-> "line", reading |-> calc.reading,
                line |-> Encode(calc.reading)]
    /\ UNCHANGED <<qvars, cvars, lineLog, pvars, evars, wvars>>

\* the consumer matches the line and, on a match, takes the values
ParseLine ==
    /\ calc.stage = "line"
    /\ calc' = IF Matches(calc.line)
               THEN [stage |-> "decoded", reading |-> calc.reading,
                     line |-> calc.line, decoded |-> Decode(calc.line)]
               ELSE [stage |-> "rejected", reading |-> calc.reading,
                     line |-> calc.line]
    /\ UNCHANGED <<qvars, cvars, lineLog, pvars, evars, wvars>>

RoundTripStart ==
    /\ QueueInit /\ apiUp /\ CtlInit
    /\ calc \in {[stage |-> "reading", reading |-> r] : r \in RoundTripReadings}
    /\ lineLog = NoLines /\ PipeInit /\ EndpointUp
    /\ ProducerInit

RoundTripNext == FormatLine \/ ParseLine

SpecRoundTrip == RoundTripStart /\ [][RoundTripNext]_vars

\* ------------------------------------------- the line handlers on raw text
\* a line as the producer writes it, for sensor s1 with all pixels at fill
LineOf(n, fill) ==
    Encode([sensor_id |-> "s1", date |-> "2025-04-08",
            time |-> <<"14", ":", "25", ":", "23", ":", "171">>,
            ptat |-> 265, pix |-> [i \in 1..n |-> fill]])
NormalLine == LineOf(N_PIXEL, 250)
HotLine == LineOf(N_PIXEL, 710)

\* the line without its lexeme i, and with lexeme i replaced
WithoutAt(line, i) == SubSeq(line, 1, i - 1) \o SubSeq(line, i + 1, Len(line))
ReplaceAt(line, i, lexeme) == [line EXCEPT ![i] = lexeme]
First(line, lit) == CHOOSE i \in 1..Len(line) :
                        line[i] = lit /\ \A j \in 1..(i - 1) : line[j] # lit

FieldMarkers == {LitId, LitDate, LitTime, LitPTAT, LitTemperature}
\* the lines that lack one field marker or the closing [degC]
MarkerlessLines ==
    {WithoutAt(NormalLine, First(NormalLine, m)) : m \in FieldMarkers}
    \cup {WithoutAt(HotLine, Len(HotLine))}

\* text in the place of a number that is made of the characters [0-9.-]
\* and is no number
BadNumbers == {<<"-">>, <<".">>, <<"1", ".", "2", ".", "3">>}
PtatPlace(line) == SkipWs(line, First(line, LitPTAT) + 1)
FirstPixelPlace(line) == SkipWs(line, First(line, LitTemperature) + 1)
BadNumberLines ==
    {ReplaceAt(NormalLine, PtatPlace(NormalLine), t) : t \in BadNumbers}
    \cup {ReplaceAt(HotLine, FirstPixelPlace(HotLine), t) : t \in BadNumbers}

\* lines whose list has one value too few or too many, or only two values
MiscountLines == {LineOf(n, 250) : n \in {2, N_PIXEL - 1, N_PIXEL + 1}}

\* the history after one more line
Logged(line, matched) ==
    [count |-> lineLog.count + 1,
     discarded |-> lineLog.discarded + (IF matched THEN 0 ELSE 1),
     last |-> line]

\* part_002 rl.on('line') and processLine, on the raw line
CtlLine(line) ==
    /\ lineLog.count < MaxRawLines
    /\ IF Matches(line)
       THEN LET sensorData == Decode(line)
            IN processLine(sensorData.sensorId, sensorData.temperatureData)
       ELSE UNCHANGED cvars
    /\ lineLog' = Logged(line, Matches(line))
    /\ UNCHANGED <<qvars, calc, pvars, evars, wvars>>

CtlRawLines == {NormalLine, HotLine} \cup BadNumberLines \cup MiscountLines
               \cup {WithoutAt(NormalLine, First(NormalLine, LitTemperature))}

LineCtlNext ==
    \/ \E line \in CtlRawLines : CtlLine(line)
    \/ \E p \in ctlPending : AlertSettled(p) /\ UNCHANGED <<qvars, ovars, pvars, evars, wvars>>

SpecLineCtl == CtlStart /\ [][LineCtlNext]_vars

\* part_003 setupPipeReader, rl.on('line'): match, then processData
FwdLine(line) ==
    /\ lineLog.count < MaxRawLines
    /\ IF Matches(line)
       THEN LET sensorData == Decode(line)
            IN processData(sensorData.sensorId, sensorData.temperatureData)
       ELSE UNCHANGED qvars
    /\ lineLog' = Logged(line, Matches(line))
    /\ UNCHANGED <<cvars, calc, pvars, evars, wvars>>

FwdRawLines == {NormalLine, HotLine} \cup MarkerlessLines

LineFwdNext ==
    \/ \E line \in FwdRawLines : FwdLine(line)
    \/ \E q \in requests : Queue(SendDataSuccess(q))
    \/ \E q \in requests : Queue(SendDataFail(q))
    \/ Queue(RetryTimer)
    \/ \E q \in requests : Queue(DrainSuccess(q))
    \/ \E q \in requests : Queue(DrainFail(q))
    \/ \E q \in requests : Queue(SendAlertSuccess(q))
    \/ \E q \in requests : Queue(SendAlertFail(q))
    \/ Queue(AlertRetryTimer)
    \/ Queue(ApiDown)
    \/ Queue(ApiUp)

SpecLineFwd == Init /\ [][LineFwdNext]_vars

\* ------------------------------------------------- the producer, sensor.c
D6T_ADDR == 10                  \* #define D6T_ADDR 0x0A
N_READ == (N_PIXEL + 1) * 2 + 1 \* #define N_READ ((N_PIXEL + 1) * 2 + 1)
Poly == 7                       \* data ^= 0x07
Byte == 256                     \* uint8_t arithmetic is modulo 2^8
Word == 65536                   \* uint16_t arithmetic is modulo 2^16

\* a ^ b on n-bit values
RECURSIVE Xor(_, _, _)
Xor(a, b, n) == IF n = 0 THEN 0
                ELSE ((a + b) % 2) + 2 * Xor(a \div 2, b \div 2, n - 1)
\* 2^n
RECURSIVE Pow2(_)
Pow2(n) == IF n = 0 THEN 1 ELSE 2 * Pow2(n - 1)

\* the loop of calc_crc from step index on
RECURSIVE CrcLoop(_, _)
CrcLoop(data, index) ==
    IF index = 8 THEN data
    ELSE LET temp == data
             shifted == (data * 2) % Byte
         IN CrcLoop(IF temp >= Byte \div 2 THEN Xor(shifted, Poly, 8) ELSE shifted,
                    index + 1)

\* a slip: the top bit is tested after the shift
calc_crc_late(data) ==
    LET step(d) == LET shifted == (d * 2) % Byte
                   IN IF shifted >= Byte \div 2 THEN Xor(shifted, Poly, 8)
                      ELSE shifted
    IN step(step(step(step(step(step(step(step(data))))))))

\* uint8_t calc_crc(uint8_t data)
calc_crc(data) == CrcLoop(data, 0)

\* the loop of D6T_checkPEC; loop holds its variables <<i, crc>>, and
\* buf[i] of the C code is element i + 1 of the sequence
RECURSIVE PecLoop(_, _, _)
PecLoop(buf, n, loop) ==
    LET i == loop[1]
        crc == loop[2]
    IN IF i = n THEN crc
       ELSE PecLoop(buf, n, <<i + 1, calc_crc(Xor(buf[i + 1], crc, 8))>>)

\* bool D6T_checkPEC(uint8_t buf[], int n): true reports a failure
D6T_checkPEC(buf, n) ==
    LET crc == PecLoop(buf, n, <<0, calc_crc(D6T_ADDR * 2 + 1)>>)
    IN crc # buf[n + 1]

\* a slip: the value is not converted to a signed one
conv8us_u16_le(buf, n) == (buf[n + 1] + buf[n + 2] * Byte) % Word

\* int16_t conv8us_s16_le(uint8_t* buf, int n)
conv8us_s16_le(buf, n) ==
    LET ret == (buf[n + 1] + buf[n + 2] * Byte) % Word
    IN IF ret >= Word \div 2 THEN ret - Word ELSE ret

\* CRC-8 of a message by long division, bit by bit from the top bit of the
\* first byte: the register is shifted, the message bit enters at the top
RECURSIVE Crc8Bits(_, _, _)
Crc8Bits(byte, bit, reg) ==
    IF bit = 8 THEN reg
    ELSE LET inBit == (byte \div Pow2(7 - bit)) % 2
             top == (reg \div (Byte \div 2) + inBit) % 2
             shifted == (reg * 2) % Byte
         IN Crc8Bits(byte, bit + 1,
                     IF top = 1 THEN Xor(shifted, Poly, 8) ELSE shifted)

\* (division holds <<bytes taken, register>>)
RECURSIVE Crc8Bytes(_, _)
Crc8Bytes(msg, division) ==
    LET taken == division[1]
        reg == division[2]
    IN IF taken = Len(msg) THEN reg
       ELSE Crc8Bytes(msg, <<taken + 1, Crc8Bits(msg[taken + 1], 0, reg)>>)
Crc8(msg) == Crc8Bytes(msg, <<0, 0>>)

\* frames the sensor can answer with: its N_READ - 1 data bytes follow a
\* pattern, its last byte is the CRC-8 over the read address and the data
FrameMultipliers == {0, 17, 37, 251}
FrameOffsets == {0, 3, 128, 255}
FrameData(m, c) == [i \in 1..(N_READ - 1) |-> (m * i + c) % Byte]
ValidFrame(data) == Append(data, Crc8(<<D6T_ADDR * 2 + 1>> \o data))
ValidFrames ==
    {ValidFrame(FrameData(m, c)) : m \in FrameMultipliers, c \in FrameOffsets}
\* bit k of the frame, counted from bit 0 of byte 0
FlipBitOf(frame, k) ==
    [frame EXCEPT ![(k \div 8) + 1] = Xor(@, Pow2(k % 8), 8)]

\* the bus delivers the frame with one bit changed
FlipBit(k) ==
    /\ calc.stage = "frame" /\ calc.flipped = -1
    /\ calc' = [calc EXCEPT !.rbuf = FlipBitOf(@, k), !.flipped = k]
    /\ UNCHANGED <<qvars, cvars, lineLog, pvars, evars, wvars>>

\* a slip: a frame that fails the check is dropped
ProceedsIfValid(pecFailed) == ~pecFailed

\* main does not look at what D6T_checkPEC returns
Proceeds(pecFailed) == TRUE

\* main: D6T_checkPEC(rbuf, N_READ - 1)
CheckPEC ==
    /\ calc.stage = "frame"
    /\ LET pecFailed == D6T_checkPEC(calc.rbuf, N_READ - 1)
       IN calc' = [stage |-> IF Proceeds(pecFailed) THEN "checked" ELSE "dropped",
                   rbuf |-> calc.rbuf, flipped |-> calc.flipped,
                   pecFailed |-> pecFailed]
    /\ UNCHANGED <<qvars, cvars, lineLog, pvars, evars, wvars>>

\* main: ptat and pix_data from rbuf, in tenths
ConvertedPtat(rbuf) == conv8us_s16_le(rbuf, 0)
ConvertedPix(rbuf) == [i \in 1..N_PIXEL |-> conv8us_s16_le(rbuf, 2 + 2 * (i - 1))]
Convert ==
    /\ calc.stage = "checked"
    /\ calc' = [stage |-> "converted", rbuf |-> calc.rbuf,
                flipped |-> calc.flipped, pecFailed |-> calc.pecFailed,
                ptat |-> ConvertedPtat(calc.rbuf),
                pix_data |-> ConvertedPix(calc.rbuf)]
    /\ UNCHANGED <<qvars, cvars, lineLog, pvars, evars, wvars>>

\* main: the line for the converted values
ProducerLine(ptat, pix_data) ==
    Encode([sensor_id |-> "sensor_1", date |-> "2025-04-08",
            time |-> <<"14", ":", "25", ":", "23", ":", "171">>,
            ptat |-> ptat, pix |-> pix_data])

\* main: format the line, open the pipe without blocking, and write the
\* line when a reader holds the pipe open
WritePipe(reader) ==
    /\ calc.stage = "converted"
    /\ calc' = [stage |-> "cycled", rbuf |-> calc.rbuf,
                flipped |-> calc.flipped, pecFailed |-> calc.pecFailed,
                ptat |-> calc.ptat, pix_data |-> calc.pix_data,
                reader |-> reader,
                written |-> IF reader
                            THEN <<ProducerLine(calc.ptat, calc.pix_data)>>
                            ELSE <<>>]
    /\ UNCHANGED <<qvars, cvars, lineLog, pvars, evars, wvars>>

FrameStart ==
    /\ QueueInit /\ apiUp /\ CtlInit /\ lineLog = NoLines /\ PipeInit /\ EndpointUp
    /\ ProducerInit
    /\ calc \in {[stage |-> "frame", rbuf |-> f, flipped |-> -1] : f \in ValidFrames}

FrameNext ==
    \/ \E k \in 0..(8 * N_READ - 1) : FlipBit(k)
    \/ CheckPEC
    \/ Convert
    \/ \E reader \in BOOLEAN : WritePipe(reader)

SpecFrame == FrameStart /\ [][FrameNext]_vars

\* ------------------------------------------- the reader's pipe session
\* openPipe and cleanupResources of the controller-based pipe reader.  A read
\* stream is "open" from fs.createReadStream until it is destroyed, by the
\* end of the pipe's input, by a read error or by cleanupResources; a
\* destroyed stream still emits the events it owes, 'error' before 'close'.
\* The listeners openPipe registers on a stream stay on it and work on the
\* module-level fd, readStream and rl, whatever stream these hold by then.
\* A blocked fs.openSync blocks the whole process: the time it takes is not
\* a state of the reader.

\* the identities a new stream can take
FreeIds(st, held) ==
    { s \in SessionIds :
        /\ s \notin held
        /\ st[s].state # "open"
        /\ st[s].events = <<>> }

\* fs.closeSync(fd) in its try: one more close of the descriptor d, whether
\* it is still open or not
closeSync(st, d) == [st EXCEPT ![d].closes = @ + 1]

\* cleanupResources: rl.close(), readStream.destroy(), fs.closeSync(fd),
\* each guarded by its handle and followed by setting the handle to null;
\* destroying a stream that is open closes its descriptor (autoClose) and
\* makes it emit 'close' later, destroying a destroyed one does nothing
cleanupResources(st) ==
    LET closed == IF rl # Null THEN [st EXCEPT ![rl].listening = FALSE]
                  ELSE st
        destroyed ==
            IF readStream # Null /\ closed[readStream].state = "open"
            THEN [closed EXCEPT ![readStream].state = "destroyed",
                                ![readStream].events = Append(@, "close"),
                                ![readStream].closes = @ + 1]
            ELSE closed
    IN IF fd # Null THEN closeSync(destroyed, fd) ELSE destroyed

\* a slip: the catch of openPipe does not schedule another call
setImmediateLost(pending) == pending

\* catch of openPipe: setImmediate(openPipe)
setImmediate(pending) == pending + 1

\* openPipe, run with the streams st, the handles holding held and pending
\* calls of it waiting: fs.openSync returns (opened) and the three handles
\* hold the new stream, or it throws and the handles stay as they are
openPipe(st, held, pending, opened) ==
    IF opened
    THEN /\ FreeIds(st, {held[1], held[2], held[3]}) # {}
         /\ LET free == FreeIds(st, {held[1], held[2], held[3]})
                n == CHOOSE i \in free : \A j \in free : i <= j
            IN /\ fd' = n /\ readStream' = n /\ rl' = n
               /\ streams' = [st EXCEPT ![n] = [state |-> "open",
                                                listening |-> TRUE,
                                                events |-> <<>>,
                                                closes |-> 0]]
         /\ pendingOpens' = pending
         /\ UNCHANGED openFailures
    ELSE /\ openFailures < MaxOpenFailures
         /\ openFailures' = openFailures + 1
         /\ fd' = held[1] /\ readStream' = held[2] /\ rl' = held[3]
         /\ streams' = st
         /\ pendingOpens' = setImmediate(pending)

\* start's call of openPipe, or a setImmediate callback
OpenPipeCall(opened) ==
    /\ pendingOpens > 0
    /\ openPipe(streams, <<fd, readStream, rl>>, pendingOpens - 1, opened)
    /\ UNCHANGED <<readErrors, received>>
    /\ UNCHANGED <<qvars, cvars, ovars, evars, wvars>>

\* what the listener of 'close' and the listener of 'error' of stream s do
\* once the event is emitted: cleanupResources(); openPipe();
Reconnect(s, opened) ==
    /\ openPipe(cleanupResources([streams EXCEPT ![s].events = Tail(@)]),
                <<Null, Null, Null>>, pendingOpens, opened)
    /\ UNCHANGED <<readErrors, received>>
    /\ UNCHANGED <<qvars, cvars, ovars, evars, wvars>>

\* readStream.on('close', ...)
OnClose(s, opened) ==
    /\ streams[s].events # <<>> /\ Head(streams[s].events) = "close"
    /\ Reconnect(s, opened)

\* readStream.on('error', ...)
OnError(s, opened) ==
    /\ streams[s].events # <<>> /\ Head(streams[s].events) = "error"
    /\ Reconnect(s, opened)

\* rl.on('line', ...): the readline interface of stream s emits a line
OnLine(s) ==
    /\ streams[s].state = "open" /\ streams[s].listening
    /\ received < MaxReceived
    /\ received' = received + 1
    /\ UNCHANGED <<fd, readStream, rl, streams, pendingOpens, openFailures,
                   readErrors>>
    /\ UNCHANGED <<qvars, cvars, ovars, evars, wvars>>

\* the writer closes the pipe: stream s reads the end of its input, its
\* readline interface closes, the stream closes its descriptor (autoClose)
\* and emits 'close'
PipeEnds(s) ==
    /\ streams[s].state = "open"
    /\ streams' = [streams EXCEPT ![s] = [state |-> "destroyed",
                                          listening |-> FALSE,
                                          events |-> <<"close">>,
                                          closes |-> streams[s].closes + 1]]
    /\ UNCHANGED <<fd, readStream, rl, pendingOpens, openFailures,
                   readErrors, received>>
    /\ UNCHANGED <<qvars, cvars, ovars, evars, wvars>>

\* a read of stream s fails: the stream is destroyed and emits 'error',
\* then 'close'
ReadError(s) ==
    /\ streams[s].state = "open"
    /\ readErrors < MaxReadErrors
    /\ readErrors' = readErrors + 1
    /\ streams' = [streams EXCEPT ![s].state = "destroyed",
                                  ![s].events = <<"error", "close">>,
                                  ![s].closes = @ + 1]
    /\ UNCHANGED <<fd, readStream, rl, pendingOpens, openFailures, received>>
    /\ UNCHANGED <<qvars, cvars, ovars, evars, wvars>>

\* what the event loop runs: a waiting call of openPipe, a listener
Callbacks ==
    \/ \E opened \in BOOLEAN : OpenPipeCall(opened)
    \/ \E s \in SessionIds, opened \in BOOLEAN : OnClose(s, opened)
    \/ \E s \in SessionIds, opened \in BOOLEAN : OnError(s, opened)

PipeNext ==
    \/ Callbacks
    \/ \E s \in SessionIds : OnLine(s)
    \/ \E s \in SessionIds : PipeEnds(s)
    \/ \E s \in SessionIds : ReadError(s)

SpecPipe == Init /\ [][PipeNext]_vars

\* the event loop runs a callback that is ready, and fs.openSync does not
\* throw for ever (it throws MaxOpenFailures times at most)
LivePipe == SpecPipe /\ WF_vars(Callbacks)

\* --------------------------------------------- creating the named pipe
\* Each program tests whether the pipe exists and, when it does not, creates
\* it: access() then mkfifo() in the sensor programs, fs.existsSync then
\* execSync('mkfifo ...') and fs.chmodSync in the readers.  These are
\* separate system calls, so the start-ups of the programs interleave
\* between them.

\* access(PIPE_NAME, F_OK) == -1 / !fs.existsSync(pipeName)
CheckExists(p) ==
    /\ startPc[p] = "start"
    /\ startPc' = [startPc EXCEPT ![p] = IF pipeExists THEN "running"
                                         ELSE "create"]
    /\ UNCHANGED pipeExists
    /\ UNCHANGED <<qvars, cvars, ovars, pvars, wvars>>

\* mkfifo: it fails when the pipe exists by now (EEXIST) and when the
\* directory refuses it (refused); the sensor programs then return 1 and the
\* readers call process.exit(1), whatever the reason of the failure
Mkfifo(p, refused) ==
    /\ startPc[p] = "create"
    /\ IF pipeExists
       THEN /\ startPc' = [startPc EXCEPT ![p] = "exitedAlreadyExists"]
            /\ UNCHANGED pipeExists
       ELSE IF refused
       THEN /\ startPc' = [startPc EXCEPT ![p] = "exitedCannotCreate"]
            /\ UNCHANGED pipeExists
       ELSE /\ pipeExists' = TRUE
            /\ startPc' = [startPc EXCEPT ![p] = IF p \in NodePrograms
                                                 THEN "chmod"
                                                 ELSE "running"]
    /\ UNCHANGED <<qvars, cvars, ovars, pvars, wvars>>

\* fs.chmodSync(pipeName, 0o660) on the pipe the reader has just created
Chmod(p) ==
    /\ startPc[p] = "chmod"
    /\ startPc' = [startPc EXCEPT ![p] = "running"]
    /\ UNCHANGED pipeExists
    /\ UNCHANGED <<qvars, cvars, ovars, pvars, wvars>>

\* the programs are started, with the pipe there or not
EndpointStart ==
    /\ QueueInit /\ apiUp /\ CtlInit
    /\ calc = Idle /\ lineLog = NoLines /\ PipeInit /\ ProducerInit
    /\ pipeExists \in BOOLEAN
    /\ startPc = [p \in Programs |-> "start"]

EndpointNext ==
    \/ \E p \in Programs : CheckExists(p)
    \/ \E p \in Programs, refused \in BOOLEAN : Mkfifo(p, refused)
    \/ \E p \in Programs : Chmod(p)

SpecEndpoint == EndpointStart /\ [][EndpointNext]_vars

\* ------------------------------------------ the sensor program's pipe end
\* One cycle of the loop of main in sensor.c, seen from the named pipe: the
\* frame is read and formatted, the pipe is opened for writing without
\* blocking, the line is written, the pipe is closed, the program sleeps.
\* The reader opens and closes its end as it pleases (fs.openSync,
\* fs.closeSync in cleanupResources, its process ending).  The program sets
\* no disposition for SIGPIPE.

\* memset ... sprintf: the frame is read and the line formatted
ReadCycle ==
    /\ producer.pc = "read"
    /\ producer.cycles < MaxCycles
    /\ producer' = [producer EXCEPT !.pc = "open", !.cycles = @ + 1]
    /\ UNCHANGED pipeReaders
    /\ UNCHANGED <<qvars, cvars, ovars, pvars, evars>>

\* a slip: open without O_NONBLOCK, which waits until a read end is open
OpenReturnsWithReader(readers) == readers > 0

\* open with O_NONBLOCK returns at once, a read end being open or not
OpenReturns(readers) == TRUE

\* int pipe_fd = open(PIPE_NAME, O_WRONLY | O_NONBLOCK): -1 (ENXIO) when no
\* read end is open, and then the write is skipped
OpenForWrite ==
    /\ producer.pc = "open"
    /\ OpenReturns(pipeReaders)
    /\ producer' = IF pipeReaders > 0
                   THEN [producer EXCEPT !.pc = "write"]
                   ELSE [producer EXCEPT !.pc = "delay", !.skipped = @ + 1]
    /\ UNCHANGED pipeReaders
    /\ UNCHANGED <<qvars, cvars, ovars, pvars, evars>>

\* write(pipe_fd, buffer, strlen(buffer)): with no read end open by now the
\* kernel sends SIGPIPE, whose default action ends the program
WriteLine ==
    /\ producer.pc = "write"
    /\ producer' = IF pipeReaders > 0
                   THEN [producer EXCEPT !.pc = "close", !.sent = @ + 1]
                   ELSE [producer EXCEPT !.pc = "killed"]
    /\ UNCHANGED pipeReaders
    /\ UNCHANGED <<qvars, cvars, ovars, pvars, evars>>

\* close(pipe_fd)
ClosePipe ==
    /\ producer.pc = "close"
    /\ producer' = [producer EXCEPT !.pc = "delay"]
    /\ UNCHANGED pipeReaders
    /\ UNCHANGED <<qvars, cvars, ovars, pvars, evars>>

\* delay(300)
Delay ==
    /\ producer.pc = "delay"
    /\ producer' = [producer EXCEPT !.pc = "read"]
    /\ UNCHANGED pipeReaders
    /\ UNCHANGED <<qvars, cvars, ovars, pvars, evars>>

\* the reader's fs.openSync(pipeName, 'r')
ReaderOpens ==
    /\ pipeReaders = 0
    /\ pipeReaders' = 1
    /\ UNCHANGED producer
    /\ UNCHANGED <<qvars, cvars, ovars, pvars, evars>>

\* the reader's read end is closed: by the stream, by fs.closeSync(fd), or
\* with the reader's process
ReaderCloses ==
    /\ pipeReaders = 1
    /\ pipeReaders' = 0
    /\ UNCHANGED producer
    /\ UNCHANGED <<qvars, cvars, ovars, pvars, evars>>

ProducerNext ==
    \/ ReadCycle
    \/ OpenForWrite
    \/ WriteLine
    \/ ClosePipe
    \/ Delay
    \/ ReaderOpens
    \/ ReaderCloses

SpecProducer == Init /\ [][ProducerNext]_vars

\* the steps of the sensor program itself
ProducerSteps == ReadCycle \/ OpenForWrite \/ WriteLine \/ ClosePipe \/ Delay

\* the sensor program is a running process: a step of it that can be taken
\* is taken; nothing obliges a reader to open or close the pipe
LiveProducer == SpecProducer /\ WF_vars(ProducerSteps)

\* ------------------------------------------- the controllers' posts
\* sendTemperatureData (temperatureController.js) and sendAlertData (the
\* alert controller): one axios.post in a try; the catch logs and returns
\* false.  processLine does not await sendTemperatureData and
\* checkAndHandleAlertTransition does not look at what sendAlertData
\* returns.  calc.posts holds, per record handed to one of the two, the
\* posts made for it and where it stands.

\* sendTemperatureData(data) / sendAlertData(data) up to its await
CtlSend(kind) ==
    /\ calc.stage = "posting"
    /\ Len(calc.posts) < MaxPosts
    /\ calc' = [calc EXCEPT !.posts =
                   Append(@, [kind |-> kind,
                              url |-> IF kind = "temperature"
                                      THEN TemperatureUrl ELSE AlertsUrl,
                              attempts |-> 1,
                              state |-> "posted"])]
    /\ UNCHANGED <<qvars, cvars, lineLog, pvars, evars, wvars>>

\* the post of record i settles: return true, or the catch and return false
CtlSendSettles(i, accepted) ==
    /\ calc.stage = "posting"
    /\ i \in 1..Len(calc.posts)
    /\ calc.posts[i].state = "posted"
    /\ calc' = [calc EXCEPT !.posts[i].state =
                   IF accepted THEN "delivered" ELSE "dropped"]
    /\ UNCHANGED <<qvars, cvars, lineLog, pvars, evars, wvars>>

CtlPostStart ==
    /\ QueueInit /\ apiUp /\ CtlInit
    /\ calc = [stage |-> "posting", posts |-> <<>>]
    /\ lineLog = NoLines /\ PipeInit /\ EndpointUp /\ ProducerInit

CtlPostNext ==
    \/ \E kind \in Types : CtlSend(kind)
    \/ \E i \in 1..MaxPosts, accepted \in BOOLEAN : CtlSendSettles(i, accepted)

SpecCtlPost == CtlPostStart /\ [][CtlPostNext]_vars

\* ------------------------------------------- the producer's sensor read
\* One cycle of main from memset to the write: i2c_read_reg8 returns 0 with
\* the frame in the buffer, or an error code; main keeps the code in ret and
\* never reads it.

ShortRead == 25         \* i2c_read_reg8: err = 25 (count != length)
\* the codes of the failures before any byte is stored: open, ioctl, write,
\* read returning less than zero
NoDataErrors == {21, 22, 23, 24}

\* memset(rbuf, 0, N_READ)
memset(n) == [i \in 1..n |-> 0]

\* i2c_read_reg8: the code it returns and what it leaves in data when the
\* device would deliver frame; read stored count bytes when it returned
\* count (a short read stores the bytes it got)
i2c_read_reg8(data, length, frame, err, count) ==
    IF err = 0 THEN [ret |-> 0, data |-> frame]
    ELSE IF err = ShortRead
    THEN [ret |-> err,
          data |-> [i \in 1..length |-> IF i <= count THEN frame[i] ELSE data[i]]]
    ELSE [ret |-> err, data |-> data]

\* main: a whole cycle, the pipe being held open by a reader or not
SensorCycle(frame, err, count, reader) ==
    /\ calc.stage = "cycle"
    /\ calc.cycles < MaxReads
    /\ LET got == i2c_read_reg8(memset(N_READ), N_READ, frame, err, count)
           pecFailed == D6T_checkPEC(got.data, N_READ - 1)
           ptat == ConvertedPtat(got.data)
           pix_data == ConvertedPix(got.data)
       IN calc' = [stage |-> "cycle", cycles |-> calc.cycles + 1,
                   ret |-> got.ret, rbuf |-> got.data,
                   pecFailed |-> pecFailed,
                   ptat |-> ptat, pix_data |-> pix_data,
                   buffer |-> ProducerLine(ptat, pix_data),
                   written |-> IF reader THEN <<ProducerLine(ptat, pix_data)>>
                               ELSE <<>>]
    /\ UNCHANGED <<qvars, cvars, lineLog, pvars, evars, wvars>>

SensorReadStart ==
    /\ QueueInit /\ apiUp /\ CtlInit
    /\ calc = [stage |-> "cycle", cycles |-> 0]
    /\ lineLog = NoLines /\ PipeInit /\ EndpointUp /\ ProducerInit

\* the frames the device would deliver, and the lengths of a short read
ReadFrames == {ValidFrame(FrameData(m, c)) : m \in {0, 17}, c \in FrameOffsets}
ShortCounts == {0, 1, 2, N_READ - 1}

SensorReadNext ==
    \E frame \in ReadFrames, reader \in BOOLEAN :
        \/ SensorCycle(frame, 0, N_READ, reader)
        \/ \E err \in NoDataErrors : SensorCycle(frame, err, 0, reader)
        \/ \E count \in ShortCounts :
              SensorCycle(frame, ShortRead, count, reader)

SpecSensorRead == SensorReadStart /\ [][SensorReadNext]_vars

\* ------------------------------------------- the producer's time field
\* The part of a cycle of main between gettimeofday and the sprintf that
\* writes the head of the line.  The clock is kept in milliseconds of the
\* day; time_str is an array declared in the body of the loop, without an
\* initialiser: at the start of a cycle it holds what its place on the stack
\* holds, the text of the cycle before or anything else.

MinLoggedMsec == 300    \* part_000: if (raw_msec >= 300)
Colon == <<":">>

\* printf "%0<width>d" of a natural number
ZeroPadded(n, width) ==
    LET text == DecChars(n)
        pad == IF Len(text) < width THEN width - Len(text) ELSE 0
    IN [i \in 1..pad |-> DigitChar(0)] \o text

\* localtime and tv_usec / 1000 of a clock reading
TmOf(clock) ==
    [tm_hour |-> (clock \div 3600000) % 24,
     tm_min |-> (clock \div 60000) % 60,
     tm_sec |-> (clock \div 1000) % 60,
     msec |-> clock % 1000]

\* sprintf(time_str, "%02d:%02d:%02d:%03ld", tm_hour, tm_min, tm_sec, msec)
FormatTime(clock) ==
    LET tm == TmOf(clock)
    IN ZeroPadded(tm.tm_hour, 2) \o Colon \o ZeroPadded(tm.tm_min, 2) \o Colon
       \o ZeroPadded(tm.tm_sec, 2) \o Colon \o ZeroPadded(tm.msec, 3)

\* what an array that was never written can hold: no text, or some text
Indeterminate == {<<>>, <<"?">>}

\* char time_str[20] at the start of a cycle
StackSlot(left) == {left} \cup Indeterminate

\* the clock readings of a run: a start just before the hour, then the next
\* cycle follows after its delay
ClockStart == 3599000
ClockSteps == {299, 300, 301, 700, 1000, 1001}

\* sensor.c: the time field is formatted in every cycle
StampCycle(step) ==
    /\ calc.program = "sensor"
    /\ calc.cycles < MaxStamps
    /\ LET clock == calc.clock + step
           time_str == FormatTime(clock)
       IN calc' = [calc EXCEPT !.clock = clock, !.cycles = @ + 1,
                               !.time_str = time_str, !.line_time = time_str]
    /\ UNCHANGED <<qvars, cvars, lineLog, pvars, evars, wvars>>

\* part_000: the time field is formatted only if raw_msec >= 300
StampCycleLogged(step, slot) ==
    /\ calc.program = "sensorLogged"
    /\ calc.cycles < MaxStamps
    /\ LET clock == calc.clock + step
           raw_msec == TmOf(clock).msec
           time_str == IF raw_msec >= MinLoggedMsec THEN FormatTime(clock)
                       ELSE slot
       IN calc' = [calc EXCEPT !.clock = clock, !.cycles = @ + 1,
                               !.time_str = time_str, !.line_time = time_str]
    /\ UNCHANGED <<qvars, cvars, lineLog, pvars, evars, wvars>>

StampStart ==
    /\ QueueInit /\ apiUp /\ CtlInit
    /\ calc \in {[stage |-> "stamp", program |-> p, clock |-> ClockStart,
                   cycles |-> 0, time_str |-> <<>>, line_time |-> <<>>] :
                      p \in CPrograms}
    /\ lineLog = NoLines /\ PipeInit /\ EndpointUp /\ ProducerInit

StampNext ==
    \/ \E step \in ClockSteps : StampCycle(step)
    \/ \E step \in ClockSteps : \E slot \in StackSlot(calc.time_str) :
          StampCycleLogged(step, slot)

SpecStamp == StampStart /\ [][StampNext]_vars

\* ------------------------------------------------------ claim vocabulary
TempRec(r) == Rec("temperature", r)
AlertRec(r) == Rec("alert", r)

Count(S) == Cardinality(S)
\* the number of places that hold the record rec
PlacesIn(rec, buffer, reqs, tms, dlv) ==
    Count({i \in DOMAIN buffer : buffer[i] = rec})
    + Count({q \in reqs : q.rec = rec})
    + Count({i \in DOMAIN tms : tms[i].rec = rec})
    + Len(dlv[rec])

InBuffer(rec) == \E i \in DOMAIN dataBuffer : dataBuffer[i] = rec
IsDelivered(rec) == Len(delivered[rec]) > 0

IsPrefix(a, b) == Len(a) <= Len(b) /\ SubSeq(b, 1, Len(a)) = a

DrainRequests(reqs) == {q \in reqs : q.ctx = "drain"}

\* the request q completes in this step, accepted / rejected by the API server
Accepted(q) ==
    q \in requests /\ q \notin requests' /\ delivered'[q.rec] # delivered[q.rec]
Rejected(q) ==
    q \in requests /\ q \notin requests' /\ delivered'[q.rec] = delivered[q.rec]

\* the sensor of a record, and its place in the order of production: the
\* temperature record of a reading comes before its alert record, and both
\* before the records of the next reading
SensorOf(rec) == SensorKey(readings[rec.rid].sensor_id)
Produced(rec) == 2 * rec.rid + (IF rec.type = "alert" THEN 1 ELSE 0)

\* ----------------------------------------------------------------- C1
C1_Step ==
    /\ \A q \in requests' : q.ctx = "sendData" => q.retry <= RetryLimit
    /\ \A q \in requests :
          (q.ctx = "sendData" /\ Rejected(q)) =>
             IF q.retry < RetryLimit
             THEN /\ timers' = Append(timers, [rec |-> q.rec, retry |-> q.retry + 1])
                  /\ dataBuffer' = dataBuffer
             ELSE /\ dataBuffer' = Append(dataBuffer, q.rec)
                  /\ ~InBuffer(q.rec)
                  /\ timers' = timers
    /\ \A r \in 1..Len(readings') :
          PlacesIn(TempRec(r), dataBuffer', requests', timers', delivered') = 1

\* C1: a live temperature record whose attempt is rejected is scheduled for
\* another attempt after the retry delay while it has been retried fewer than
\* RetryLimit times (the retry number of a live attempt never exceeds
\* RetryLimit); when the attempt with retry number RetryLimit is rejected the
\* record is appended to the tail of dataBuffer, where it was not before; and
\* every temperature record is at all times in exactly one place (a pending
\* request, a retry timer, the buffer, or delivered), so it is not lost.
C1_RetryThenBuffer == [][C1_Step]_vars

\* one reading, rejected RetryLimit + 1 times, ends in the buffer
C1_Witness ==
    /\ Len(readings) = 1
    /\ dataBuffer = <<TempRec(1)>>
    /\ requests = {} /\ timers = <<>> /\ ~isProcessing

\* ----------------------------------------------------------------- C2
C2_Step ==
    /\ \A q \in requests :
          (q.ctx \in {"sendData", "drain"} /\ Accepted(q) /\ dataBuffer # <<>>) =>
             /\ dataBuffer' = Tail(dataBuffer)
             /\ \E d \in requests' :
                   /\ d.rec = Head(dataBuffer)
                   /\ DrainRequests(requests') = {d}
    /\ (DrainRequests(requests) # {} /\ DrainRequests(requests') = DrainRequests(requests))
          => IsPrefix(dataBuffer, dataBuffer')
    /\ drain'.phase = "running" =>
          \E d \in DrainRequests(requests') :
              IsPrefix(drain'.base, drain'.log \o <<d.rec>> \o dataBuffer')
    /\ drain'.phase = "emptied" => IsPrefix(drain'.base, drain'.log)
    /\ (drain.phase = "running" /\ drain'.phase = "emptied") => dataBuffer' = <<>>

\* C2: when a live temperature send is accepted while dataBuffer is not empty,
\* a drain starts with the head of the buffer; every accepted drain request is
\* followed by the next head; while a drain request is pending the buffer only
\* grows at its tail; so the records delivered by a drain are the records
\* that were buffered when it started, oldest first and in their order,
\* followed by the records appended while it ran, and a drain that is not
\* stopped by a failure ends with the buffer empty.
C2_DrainInOrder == [][C2_Step]_vars

\* a drain that delivered more records than the buffer held when it started
C2_Witness ==
    /\ drain.phase = "emptied"
    /\ Len(drain.base) >= 1
    /\ Len(drain.log) > Len(drain.base)

\* ----------------------------------------------------------------- C3
C3_Step ==
    /\ Count(DrainRequests(requests')) <= 1
    /\ \A q \in requests :
          (q.ctx = "drain" /\ Accepted(q) /\ dataBuffer # <<>>) =>
             /\ dataBuffer' = Tail(dataBuffer)
             /\ \E d \in DrainRequests(requests') : d.rec = Head(dataBuffer)
    /\ \A q \in requests :
          (q.ctx = "drain" /\ Rejected(q)) =>
             /\ dataBuffer' = <<q.rec>> \o dataBuffer
             /\ DrainRequests(requests') = {}
             /\ drain'.phase = "stopped"
             /\ IsPrefix(drain'.base, drain'.log \o dataBuffer')

\* C3: a drain has at most one record out of the buffer at a time, taken from
\* the head; when the delivery of that record is rejected the record is put
\* back at the head and no further drain request is made, so that the records
\* delivered by the drain followed by the buffer are still the records that
\* were buffered when the drain started, in the same order, followed by the
\* records appended meanwhile.
C3_DrainStopsAtFailure == [][C3_Step]_vars

\* a drain that delivered a record, then failed with two or more left
C3_Witness ==
    /\ drain.phase = "stopped"
    /\ Len(drain.log) >= 1
    /\ Len(dataBuffer) >= 2

\* ----------------------------------------------------------------- C4
\* C4: at every moment at most one outbound request is pending, counting the
\* live temperature sends, the alert sends and the drain together.
C4_SingleFlight == Count(requests) <= 1

\* ----------------------------------------------------------------- C5
\* C5: two consecutive alert documents of one sensor never have the same
\* direction (a run of abnormal readings yields one to-Abnormal alert), also
\* when readings arrive while earlier ones are still being processed.
C5_EdgeTriggered ==
    \A i, j \in DOMAIN alertLog :
        (/\ i < j
         /\ alertLog[i].sensor_id = alertLog[j].sensor_id
         /\ \A k \in (i + 1)..(j - 1) : alertLog[k].sensor_id # alertLog[i].sensor_id)
        => alertLog[i].status # alertLog[j].status

\* ----------------------------------------------------------------- C7
\* the alert records the reader created for sensor s
CtlAlertsOf(s, alerts) == SelectSeq(alerts, LAMBDA a : a.sensor_id = s)
CtlStatus(isAbnormal) == IF isAbnormal THEN "abnormal" ELSE "normal"

\* C6: while the lines of one sensor are processed one after another (none
\* arrives before the alert submission of an earlier one has returned), the
\* stored state is the classification of the previous line (Normal before the
\* first), a line that differs from it creates exactly one alert record, for
\* that line and with the matching direction, and a line equal to it creates
\* none and leaves the stored states as they are.
C6_Step ==
    \A s \in Sensors, td \in TemperatureInputs :
        (processLine(s, td) /\ ~ctlOverlap'[s]) =>
            LET isAbnormal == analyzeTemperatureData(td).isAbnormal
                n == Len(ctlAlerts)
            IN /\ ctlAlertState[s] = ctlLast[s]
               /\ IF isAbnormal # ctlAlertState[s]
                  THEN /\ Len(ctlAlerts') = n + 1
                       /\ SubSeq(ctlAlerts', 1, n) = ctlAlerts
                       /\ ctlAlerts'[n + 1].sensor_id = s
                       /\ ctlAlerts'[n + 1].line = ctlCount[s] + 1
                       /\ ctlAlerts'[n + 1].status = CtlStatus(isAbnormal)
                  ELSE /\ ctlAlerts' = ctlAlerts
                       /\ ctlAlertState' = ctlAlertState
C6_SequentialEdges == [][C6_Step]_vars

\* six lines of s1 alone, processed one after another, with an alert at the
\* third (to abnormal) and at the sixth (to normal) and nowhere else: the
\* lines were normal, normal, abnormal, abnormal, abnormal, normal
C6_Witness ==
    /\ ctlCount["s1"] = 6 /\ ctlCount["s2"] = 0
    /\ ~ctlOverlap["s1"] /\ ctlPending = {}
    /\ Len(ctlAlerts) = 2
    /\ ctlAlerts[1].line = 3 /\ ctlAlerts[1].status = "abnormal"
    /\ ctlAlerts[2].line = 6 /\ ctlAlerts[2].status = "normal"
    /\ ~ctlAlertState["s1"]

\* C7: of two records of one sensor that are both in dataBuffer, the one
\* produced earlier is nearer the head.
C7_PerSensorOrder ==
    \A i, j \in DOMAIN dataBuffer :
        (i < j /\ SensorOf(dataBuffer[i]) = SensorOf(dataBuffer[j]))
        => Produced(dataBuffer[i]) < Produced(dataBuffer[j])

\* ----------------------------------------------------------------- C8
\* C8: a record that is in dataBuffer is eventually delivered if the API
\* server is reachable from then on.
C8_BufferedEventuallyDelivered ==
    \A rec \in Recs : [](InBuffer(rec) /\ []apiUp => <>IsDelivered(rec))

\* the alert documents processData created for reading r
AlertDocsOf(r, log) == SelectSeq(log, LAMBDA d : d.rid = r)
AlertsOfSensor(B, log) == SelectSeq(log, LAMBDA d : d.sensor_id = B)
Anomaly(data) == detectAnomalies(data.temperature_data)

\* C9: the state a reading is compared with is the stored state of its
\* sensor when processData receives it; when processData has finished a
\* reading that differs from it, exactly one alert document exists for the
\* reading, its reason is the analysis reason (to abnormal) or the fixed
\* returned-to-normal message (to normal), and the step that finishes it
\* stores the reading's is_abnormal; a reading that does not differ has no
\* alert document and its last step stores nothing.
C9_Step ==
    \A r \in RIds :
        /\ (pc[r] = "new" /\ pc'[r] # "new") =>
               prev'[r] = sensorAlertState[SensorKey(readings'[r].sensor_id)]
        /\ Len(AlertDocsOf(r, alertLog')) <= 1
        /\ (pc[r] # "done" /\ pc'[r] = "done") =>
               LET data == readings'[r]
                   anomaly == Anomaly(data)
                   docs == AlertDocsOf(r, alertLog')
               IN IF anomaly.isAbnormal # prev'[r]
                  THEN /\ Len(docs) = 1
                       /\ docs[1].alert_reason =
                             (IF anomaly.isAbnormal THEN anomaly.anomalyReason
                              ELSE ReasonRecovered)
                       /\ anomaly.isAbnormal => docs[1].alert_reason \in {ReasonLow, ReasonHigh}
                       /\ sensorAlertState'[SensorKey(data.sensor_id)] = anomaly.isAbnormal
                  ELSE /\ docs = <<>>
                       /\ sensorAlertState' = sensorAlertState
C9_OneAlertPerChange == [][C9_Step]_vars

\* a change to abnormal and the change back to normal have both been handled
C9_Witness ==
    /\ Len(readings) = 2
    /\ pc[1] = "done" /\ pc[2] = "done"
    /\ Anomaly(readings[1]).isAbnormal /\ ~prev[1]
    /\ ~Anomaly(readings[2]).isAbnormal /\ prev[2]
    /\ Len(alertLog) = 2
    /\ alertLog[1].rid = 1 /\ alertLog[1].alert_reason = ReasonHigh
    /\ alertLog[2].rid = 2 /\ alertLog[2].alert_reason = ReasonRecovered
    /\ ~sensorAlertState["s1"]

\* the step moves processData's call for reading r
Advanced(r) == pc'[r] # pc[r]
\* the step changes the stored state of key B or creates an alert under it
Touched(B) ==
    \/ sensorAlertState'[B] # sensorAlertState[B]
    \/ AlertsOfSensor(B, alertLog') # AlertsOfSensor(B, alertLog)

\* C10: a step changes the stored state of a sensor, or creates an alert
\* document for it, only when it is a step of processData for a reading of
\* that sensor; a step for a reading of sensor A leaves the state and the
\* alerts of every other sensor as they were.
C10_Step ==
    \A B \in DOMAIN sensorAlertState :
        Touched(B) =>
            /\ \E r \in RIds : Advanced(r)
            /\ \A r \in RIds : Advanced(r) => readings'[r].sensor_id = B
C10_PerSensorIndependent == [][C10_Step]_vars

\* s1 has gone abnormal while a reading of s2 was handled, and s2 has neither
\* a stored abnormal state nor an alert
C10_Witness ==
    /\ Len(readings) = 2
    /\ readings[1].sensor_id = "s1" /\ readings[2].sensor_id = "s2"
    /\ pc[1] = "done" /\ pc[2] = "done"
    /\ sensorAlertState["s1"] /\ ~sensorAlertState["s2"]
    /\ AlertsOfSensor("s1", alertLog) # <<>>
    /\ AlertsOfSensor("s2", alertLog) = <<>>

\* C10 for the controller-based reader: a step for a line of sensor A, or the
\* return of A's alert submission, leaves the stored state and the alert
\* records of every other sensor as they were.
C10_CtlStep ==
    \A A \in Sensors :
        ((\E td \in TemperatureInputs : processLine(A, td))
         \/ (\E p \in ctlPending : p.sensorId = A /\ AlertSettled(p))) =>
            \A B \in Sensors \ {A} :
                /\ ctlAlertState'[B] = ctlAlertState[B]
                /\ CtlAlertsOf(B, ctlAlerts') = CtlAlertsOf(B, ctlAlerts)
C10_CtlIndependent == [][C10_CtlStep]_vars

\* ------------------------------------------------------------ C11, C12
Values == calc.values
BreachHigh == \E i \in DOMAIN Values : Values[i] > maxNormal
BreachLow == \E i \in DOMAIN Values : Values[i] < minNormal
Smallest(m) == (\E i \in DOMAIN Values : Values[i] = m)
               /\ \A i \in DOMAIN Values : m <= Values[i]
Largest(m) == (\E i \in DOMAIN Values : Values[i] = m)
              /\ \A i \in DOMAIN Values : m >= Values[i]

\* C11: each classifier reports is_abnormal exactly when some value is
\* strictly above the maximum or some value is strictly below the minimum,
\* and the minimum and maximum it reports are the smallest and the largest
\* of the values.
C11_ClassifierExact ==
    calc.stage = "classified" =>
        /\ calc.controller.isAbnormal = (BreachHigh \/ BreachLow)
        /\ calc.forwarder.isAbnormal = (BreachHigh \/ BreachLow)
        /\ calc.schema.isAbnormal = (BreachHigh \/ BreachLow)
        /\ calc.simple.isAbnormal = (BreachHigh \/ BreachLow)
        /\ Smallest(calc.controller.minTemp) /\ Largest(calc.controller.maxTemp)
        /\ Smallest(calc.schema.minTemp) /\ Largest(calc.schema.maxTemp)

\* values equal to the two thresholds are classified normal
C11_Witness ==
    /\ calc.stage = "classified"
    /\ calc.values = <<minNormal, maxNormal>>
    /\ ~calc.controller.isAbnormal /\ ~calc.forwarder.isAbnormal

\* C12: when a list breaches both thresholds, both classifiers report the
\* high-temperature reason; and for every list the two agree on is_abnormal
\* and on the kind of breach they report.
C12_TieBreakHigh ==
    calc.stage = "classified" =>
        /\ (BreachHigh /\ BreachLow) =>
               /\ calc.controller.alertReason = ReasonHigh
               /\ calc.forwarder.anomalyReason = ReasonHigh
        /\ calc.controller.isAbnormal = calc.forwarder.isAbnormal
        /\ calc.controller.alertReason = calc.forwarder.anomalyReason

\* a list with one value above the maximum and one below the minimum
C12_Witness ==
    /\ calc.stage = "classified"
    /\ calc.values = <<maxNormal + 1, minNormal - 1>>
    /\ calc.forwarder.anomalyReason = ReasonHigh
    /\ calc.controller.alertReason = ReasonHigh

\* C15: the line the producer formats for a reading is matched by the
\* consumer, and the values taken from it are the reading's sensor id, date,
\* time and reference value and its 16 pixel values in the same order;
\* once the line is formatted it is never left unmatched.
C15_RoundTrip ==
    /\ calc.stage # "rejected"
    /\ calc.stage = "decoded" =>
           /\ calc.decoded.sensorId = calc.reading.sensor_id
           /\ calc.decoded.date = calc.reading.date
           /\ calc.decoded.time = calc.reading.time
           /\ calc.decoded.ptat = calc.reading.ptat
           /\ Len(calc.decoded.temperatureData) = N_PIXEL
           /\ calc.decoded.temperatureData = calc.reading.pix

\* a reading with a negative pixel between padded ones went through
C15_Witness ==
    /\ calc.stage = "decoded"
    /\ calc.reading.pix[2] = -5 /\ calc.reading.pix[1] = 5
    /\ calc.decoded.temperatureData[2] = -5
    /\ calc.reading.ptat = -5

\* ------------------------------------------------------ C13, C14, C16
\* the line has no lexeme of one of the field markers, or does not end
\* with [degC]
LacksMarker(line) ==
    \/ \E m \in FieldMarkers : \A i \in 1..Len(line) : line[i] # m
    \/ line[Len(line)] # LitDegC

\* the step hands the line to a line handler
Given(line) == lineLog'.count = lineLog.count + 1 /\ lineLog'.last = line

\* C13: when the forwarder's line handler is given a line that lacks a field
\* marker or the closing [degC], nothing is submitted (no request, no
\* delivery), no alert document is created, the alert states, the buffer and
\* the retry timers stay as they are, and no reading is recorded.
C13_Step ==
    \A line \in FwdRawLines :
        (Given(line) /\ LacksMarker(line)) =>
            /\ requests' = requests /\ delivered' = delivered
            /\ alertLog' = alertLog
            /\ sensorAlertState' = sensorAlertState
            /\ dataBuffer' = dataBuffer
            /\ timers' = timers
            /\ readings' = readings /\ pc' = pc
            /\ lineLog'.discarded = lineLog.discarded + 1
C13_MalformedDiscarded == [][C13_Step]_vars

\* a line without its markers was discarded and the line after it was
\* handed to processData
C13_Witness ==
    /\ lineLog.count = 2 /\ lineLog.discarded = 1
    /\ lineLog.last = HotLine
    /\ Len(readings) = 1

\* C13 for the controller-based reader: a line that lacks a marker leaves the
\* reader's state as it is.
C13_CtlStep ==
    \A line \in CtlRawLines :
        (Given(line) /\ LacksMarker(line)) => UNCHANGED cvars
C13_CtlDiscarded == [][C13_CtlStep]_vars

\* the text t is a number as a whole: an optional sign, digits, and at most
\* one point with digits around it
IsNumberText(t) ==
    LET start == IF Len(t) >= 1 /\ t[1] = "-" THEN 2 ELSE 1
        intEnd == DigitRun(t, start)
        hasDot == intEnd <= Len(t) /\ t[intEnd] = "."
        fracEnd == IF hasDot THEN DigitRun(t, intEnd + 1) ELSE intEnd
    IN /\ fracEnd = Len(t) + 1
       /\ (intEnd - start) + (fracEnd - intEnd) > 0
       /\ hasDot => fracEnd > intEnd + 1 \/ intEnd > start

\* the places of the line that hold a numeric token: the PTAT field and
\* the Temperature list
HasAllMarkers(line) == ~LacksMarker(line)
ListPlaces(line) ==
    {i \in 1..Len(line) : /\ i > First(line, LitTemperature)
                          /\ i < Len(line)
                          /\ line[i] # Space /\ line[i] # Comma}
HasBadNumber(line) ==
    /\ HasAllMarkers(line)
    /\ \E i \in ListPlaces(line) \cup {PtatPlace(line)} : ~IsNumberText(line[i])

\* C14: when the reader is given a line one of whose numeric tokens is no
\* number, no reading is produced from it: nothing is classified and the
\* alert state machine is not run.
C14_Step ==
    \A line \in CtlRawLines :
        (Given(line) /\ HasBadNumber(line)) => UNCHANGED cvars
C14_BadNumberRejected == [][C14_Step]_vars

\* C16: when the reader is given a line whose Temperature list does not
\* hold exactly N_PIXEL values, nothing is classified and the alert state
\* machine is not run.
C16_Step ==
    \A line \in CtlRawLines :
        (Given(line) /\ HasAllMarkers(line)
         /\ Cardinality(ListPlaces(line)) # N_PIXEL) => UNCHANGED cvars
C16_SixteenValues == [][C16_Step]_vars

\* ------------------------------------------------------ C17, C18, C19
\* C17: the check reports no failure for a frame whose last byte is the
\* CRC-8 over the read address and the frame's data bytes, and reports a
\* failure for such a frame with any one bit changed, the last byte's bits
\* included.
C17_ChecksumExact ==
    calc.stage \in {"checked", "dropped"} =>
        calc.pecFailed = (calc.flipped # -1)

\* a frame with a bit of its checksum byte changed was reported
C17_Witness ==
    /\ calc.stage = "checked"
    /\ calc.flipped = 8 * (N_READ - 1) + 3
    /\ calc.pecFailed

\* C18: a frame that fails the check goes through the rest of the cycle:
\* no cycle is cut short, and at its end the values are those converted from
\* the frame's bytes and the line written, when a reader holds the pipe, is
\* the line for these values, as for a frame that passes the check.
C18_FailOpen ==
    /\ calc.stage # "dropped"
    /\ calc.stage = "cycled" =>
           /\ calc.ptat = ConvertedPtat(calc.rbuf)
           /\ calc.pix_data = ConvertedPix(calc.rbuf)
           /\ calc.written = IF calc.reader
                             THEN <<ProducerLine(ConvertedPtat(calc.rbuf),
                                                 ConvertedPix(calc.rbuf))>>
                             ELSE <<>>

\* a frame that failed the check had its line written
C18_Witness ==
    /\ calc.stage = "cycled"
    /\ calc.pecFailed
    /\ calc.reader /\ Len(calc.written) = 1

\* the two bytes at offset n of the frame, C indexing
LowByte(rbuf, n) == rbuf[n + 1]
HighByte(rbuf, n) == rbuf[n + 2]
Signed16(low, high) ==
    IF high >= 128 THEN low + 256 * high - 65536 ELSE low + 256 * high

\* C19: the reference value is the signed 16-bit little-endian integer at
\* offset 0 and pixel i the one at offset 2 + 2 * i, in tenths of a degree;
\* a pair whose high byte has its top bit set is the negative value
\* low + 256 * high - 65536.
C19_SignedLittleEndian ==
    calc.stage \in {"converted", "cycled"} =>
        /\ calc.ptat = Signed16(LowByte(calc.rbuf, 0), HighByte(calc.rbuf, 0))
        /\ Len(calc.pix_data) = N_PIXEL
        /\ \A i \in 0..(N_PIXEL - 1) :
               calc.pix_data[i + 1] =
                   Signed16(LowByte(calc.rbuf, 2 + 2 * i),
                            HighByte(calc.rbuf, 2 + 2 * i))

\* a frame with a negative pixel next to a positive one was converted
C19_Witness ==
    /\ calc.stage = "converted"
    /\ \E i \in 1..(N_PIXEL - 1) :
           calc.pix_data[i] < 0 /\ calc.pix_data[i + 1] > 0
    /\ HighByte(calc.rbuf, 0) >= 128 /\ calc.ptat < 0

\* the handles hold a stream that is open and whose lines reach processLine
SessionOpen ==
    /\ rl # Null /\ readStream # Null /\ fd # Null
    /\ streams[readStream].state = "open"
    /\ streams[rl].listening

\* C20: whenever the reader has no open session, because none was opened
\* yet, the session closed, a read of it failed or opening threw, it gets an
\* open session again whose lines are handed on, provided opening does not
\* throw for ever.
C20_Reconnects == (~SessionOpen) ~> SessionOpen

\* a session is open after a read error and after opening has thrown
C20_Witness ==
    /\ SessionOpen
    /\ readErrors > 0 /\ openFailures > 0
    /\ \A s \in SessionIds : streams[s].events = <<>>

\* C21: releasing the session closes each handle at most once: no file
\* descriptor of a session is closed a second time, whatever state the
\* release operation is called in and however often.
C21_ClosedAtMostOnce ==
    \A s \in SessionIds : streams[s].closes <= 1

\* C22: creating the named pipe is idempotent: no program ends because the
\* pipe exists already, also when another program creates it between this
\* program's test and its own creation.
C22_CreateIdempotent ==
    \A p \in Programs : startPc[p] # "exitedAlreadyExists"

\* C23: in steady state no transport error ends the sensor program: its
\* loop is never ended by what happens on the pipe.
C23_NoSteadyStateExit == producer.pc # "killed"

\* C24: in the controller-based pipeline a record whose post has failed is
\* posted again: no record is given up after a single failed attempt.
C24_FailedPostRetried ==
    calc.stage = "posting" =>
        \A i \in 1..Len(calc.posts) :
            calc.posts[i].state = "dropped" => calc.posts[i].attempts > 1

\* the route of a record's kind
OwnUrl(type) == IF type = "temperature" THEN TemperatureUrl ELSE AlertsUrl

\* C25: every post of a record, live, retried or replayed from the buffer,
\* goes to the route of the record's kind, and so does every delivery.
C25_OwnEndpoint ==
    /\ \A q \in requests : q.url = OwnUrl(q.rec.type)
    /\ \A rec \in Recs :
           \A i \in 1..Len(delivered[rec]) :
               delivered[rec][i] = OwnUrl(rec.type)

\* an alert record has been delivered by the replay of the buffer, and a
\* temperature record by a live post
C25_Witness ==
    /\ \E i \in 1..Len(drain.log) :
           /\ drain.log[i].type = "alert"
           /\ delivered[drain.log[i]] # <<>>
    /\ \E r \in RIds : delivered[Rec("temperature", r)] # <<>>

\* C26: in the analysis of every classifier the reason is empty exactly
\* when is_abnormal is false.
C26_ReasonIffAbnormal ==
    calc.stage = "classified" =>
        /\ (calc.controller.alertReason = "") = ~calc.controller.isAbnormal
        /\ (calc.forwarder.anomalyReason = "") = ~calc.forwarder.isAbnormal
        /\ (calc.schema.anomalyReason = "") = ~calc.schema.isAbnormal
        /\ (calc.simple.alertReason = "") = ~calc.simple.isAbnormal

\* a list that is only too cold was given the reason of the low breach
C26_Witness ==
    /\ calc.stage = "classified"
    /\ calc.values = <<minNormal - 1, minNormal>>
    /\ calc.forwarder.isAbnormal
    /\ calc.forwarder.anomalyReason = ReasonLow

\* C27: every submitted temperature record is in exactly one place: in
\* flight, on a retry timer, in the buffer once, or delivered once.
C27_ExactlyOnePlace ==
    \A r \in 1..Len(readings) :
        PlacesIn(TempRec(r), dataBuffer, requests, timers, delivered) = 1

\* one temperature record waits in the buffer while another is in flight
C27_Witness ==
    \E a, b \in 1..Len(readings) :
        /\ a # b
        /\ InBuffer(TempRec(a))
        /\ \E q \in requests : q.rec = TempRec(b)

\* the live temperature deliveries that are executing: the attempts of
\* sendDataToAPI and the posts of the drain that follows a success
LiveDeliveries == {q \in requests : q.ctx \in {"sendData", "drain"}}

\* C28: isProcessing is true exactly while one live temperature delivery (its
\* attempt or the drain that follows its success) is executing: never two at
\* once, false while a failed record waits for its retry timer with nothing
\* in flight, and still true after a submission that found it set.
C28_FlagWhileDelivering ==
    /\ isProcessing <=> LiveDeliveries # {}
    /\ Cardinality(LiveDeliveries) <= 1

\* a failed record waits for its retry timer, nothing is being delivered and
\* the flag is clear
C28_Witness ==
    /\ \E i \in 1..Len(timers) : timers[i].rec.type = "temperature"
    /\ LiveDeliveries = {}
    /\ ~isProcessing

\* C29: when the retry timer of a temperature record fires while another live
\* delivery is in flight, the record is appended to the tail of the buffer
\* and no request is made: it keeps no timer, so its remaining retries are
\* forfeited, and it is neither lost nor sent at that moment.
C29_Step ==
    (/\ timers # <<>>
     /\ timers' = Tail(timers)
     /\ Head(timers).rec.type = "temperature"
     /\ LiveDeliveries # {})
    => /\ dataBuffer' = Append(dataBuffer, Head(timers).rec)
       /\ requests' = requests
       /\ PlacesIn(Head(timers).rec, dataBuffer', requests', timers',
                   delivered') = 1

C29_BusyRetryBuffered == [][C29_Step]_vars

\* a retry timer has fired during another delivery: its record, which had
\* retries left, is in the buffer and the other delivery is still in flight
C29_Witness ==
    /\ forfeited # <<>>
    /\ InBuffer(forfeited[Len(forfeited)])
    /\ \E q \in LiveDeliveries : q.rec # forfeited[Len(forfeited)]

\* nothing is pending in the forwarder: every processData call has returned,
\* no request is in flight, no timer is set and the buffer is empty
Quiescent ==
    /\ \A r \in 1..Len(readings) : pc[r] = "done"
    /\ requests = {} /\ timers = <<>> /\ dataBuffer = <<>>
    /\ ~isProcessing

\* the readings of sensor s received so far, by arrival number
ReadingsOf(s) == {r \in 1..Len(readings) : readings[r].sensor_id = s}

\* the most recently received reading of sensor s
LatestOf(s) == CHOOSE r \in ReadingsOf(s) : \A o \in ReadingsOf(s) : o <= r

\* C30: once all pending processing has finished, the stored alert state of
\* each sensor equals is_abnormal of the most recently received reading of
\* that sensor.
C30_StateFollowsLatest ==
    Quiescent =>
        \A s \in Sensors :
            ReadingsOf(s) # {} =>
                sensorAlertState[SensorKey(s)] =
                    detectAnomalies(readings[LatestOf(s)].temperature_data).isAbnormal

\* the sessions whose stream is open
OpenSessions == {s \in SessionIds : streams[s].state = "open"}

\* a listener of stream s runs in this step and the stream of another
\* session, open before the step, is no longer open after it
StaleRelease(s, t) ==
    /\ s # t
    /\ streams[s].events # <<>>
    /\ streams'[s].events = Tail(streams[s].events)
    /\ streams[t].state = "open"
    /\ streams'[t].state # "open"

\* C31: the close and error listeners of an earlier session never release
\* the handles of a later session (and so each closure or read error is
\* followed by one reopen only).
C31_StaleNeverReleases ==
    [][\A s, t \in SessionIds : ~StaleRelease(s, t)]_vars

\* the number of places that hold the record rec before and after a step
Places(rec) == PlacesIn(rec, dataBuffer, requests, timers, delivered)
PlacesAfter(rec) == PlacesIn(rec, dataBuffer', requests', timers', delivered')

\* C32: the step that receives a reading submits the temperature record of
\* that reading once, whether or not the reading changes the alert state,
\* and no later step submits it again; an alert record is first submitted in
\* a step after which the temperature record of its reading has been
\* submitted and sendDataToAPI has returned to processData.
C32_Step ==
    /\ \A r \in RIds :
          (Len(readings) < r /\ r <= Len(readings')) =>
              /\ Places(TempRec(r)) = 0
              /\ PlacesAfter(TempRec(r)) = 1
    /\ \A r \in 1..Len(readings) : PlacesAfter(TempRec(r)) = Places(TempRec(r))
    /\ \A r \in RIds :
          (Places(AlertRec(r)) = 0 /\ PlacesAfter(AlertRec(r)) > 0) =>
              /\ r <= Len(readings')
              /\ PlacesAfter(TempRec(r)) = 1
              /\ pc'[r] = "alertSend"
              /\ ~\E q \in requests' : q.rec = TempRec(r) /\ q.caller = r

C32_TemperatureThenAlert == [][C32_Step]_vars

\* one reading changed the alert state and its alert record was submitted,
\* another changed nothing and has no alert record; the temperature record of
\* each was submitted
C32_Witness ==
    \E a, b \in 1..Len(readings) :
        /\ Places(AlertRec(a)) > 0 /\ Places(TempRec(a)) = 1
        /\ Places(AlertRec(b)) = 0 /\ Places(TempRec(b)) = 1 /\ pc[b] = "done"

\* C33: when a drain post is rejected, the live record whose accepted post
\* started the drain has been delivered exactly once and is in no other
\* place: no retry timer is set for it and it is not appended to the buffer;
\* only the drained item goes back, to the head of the buffer.
C33_Step ==
    \A q \in requests :
        (q.ctx = "drain" /\ Rejected(q)) =>
            /\ Len(delivered'[drain.live]) = 1
            /\ PlacesAfter(drain.live) = 1
            /\ timers' = timers
            /\ dataBuffer' = <<q.rec>> \o dataBuffer

C33_DrainFailureNotLive == [][C33_Step]_vars

\* a drain was stopped by a failure; the record that triggered it is
\* delivered once and the item that failed is back in the buffer
C33_Witness ==
    /\ drain.phase = "stopped"
    /\ drain.live.type = "temperature"
    /\ Len(delivered[drain.live]) = 1
    /\ Places(drain.live) = 1
    /\ dataBuffer # <<>>

\* C34: when the alert send of a reading has finished (its post was accepted,
\* or rejected with no retry left and the record buffered), the stored alert
\* state of the reading's sensor is the reading's is_abnormal, whatever the
\* outcome; while a retry is still to come the call has not returned.
C34_Step ==
    \A q \in requests :
        (/\ q.ctx = "sendAlert"
         /\ q \notin requests'
         /\ ~\E i \in DOMAIN timers' : timers'[i].rec = q.rec)
        => /\ sensorAlertState'[SensorOf(q.rec)] =
                  detectAnomalies(readings[q.rec.rid].temperature_data).isAbnormal
           /\ pc'[q.rec.rid] = "done"

C34_StateStoredWhateverOutcome == [][C34_Step]_vars

\* the alert of an abnormal reading was never accepted and was buffered after
\* its retries; the stored state of its sensor is abnormal
C34_Witness ==
    \E r \in 1..Len(readings) :
        /\ InBuffer(AlertRec(r)) /\ ~IsDelivered(AlertRec(r))
        /\ pc[r] = "done"
        /\ detectAnomalies(readings[r].temperature_data).isAbnormal
        /\ sensorAlertState[SensorOf(AlertRec(r))]

\* the time of day, in milliseconds, that a time field HH:MM:SS:mmm reads as;
\* -1 for a text of another shape
TimeRead(text) ==
    IF /\ Len(text) = 12
       /\ \A i \in {3, 6, 9} : text[i] = ":"
       /\ \A i \in (1..12) \ {3, 6, 9} : IsDigit(text[i])
    THEN LET d(i) == DigitVal(text[i])
         IN (10 * d(1) + d(2)) * 3600000 + (10 * d(4) + d(5)) * 60000
            + (10 * d(7) + d(8)) * 1000 + 100 * d(10) + 10 * d(11) + d(12)
    ELSE -1

\* C35: the time field of every line the producer emits is the HH:MM:SS:mmm
\* text of the clock reading taken in the same cycle, whatever its
\* millisecond component.
C35_TimeOfSameCycle ==
    (calc.stage = "stamp" /\ calc.cycles > 0) =>
        TimeRead(calc.line_time) = calc.clock

\* C36: a cycle whose sensor read failed still formats a line, and the line
\* is the one decoded from the zero-filled buffer: reference value and all
\* 16 pixels 0.0.
C36_FailedReadGivesZeros ==
    (calc.stage = "cycle" /\ calc.cycles > 0 /\ calc.ret # 0) =>
        /\ calc.ptat = 0
        /\ \A i \in 1..N_PIXEL : calc.pix_data[i] = 0
        /\ calc.buffer = ProducerLine(0, [i \in 1..N_PIXEL |-> 0])

\* the open of a cycle returns in this step with no read end open: the write
\* is skipped, the line is counted as skipped and kept nowhere, and the
\* program is at its delay
C37_Step ==
    (producer.pc = "open" /\ producer'.pc # "open" /\ pipeReaders = 0) =>
        /\ producer'.pc = "delay"
        /\ producer'.skipped = producer.skipped + 1
        /\ producer'.sent = producer.sent
        /\ producer'.cycles = producer.cycles

\* C37: the producer never blocks on the pipe: the open of every cycle
\* returns, with no read end open the write of that cycle is skipped and the
\* line dropped, and after a skipped write the next read cycle is reached.
C37_NeverBlocks ==
    /\ [][C37_Step]_vars
    /\ (producer.pc = "open") ~> (producer.pc # "open")
    /\ (producer.pc = "delay") ~> (producer.pc = "read")

\* a write was skipped with no reader and a later read cycle has begun
C37_Witness ==
    /\ producer.skipped > 0
    /\ producer.sent = 0
    /\ producer.cycles > producer.skipped
    /\ pipeReaders = 0

====
